---- MODULE Spec2Model ----
(***************************************************************************)
(* Model of the anime scraper (src/anime.py, src/anime_backup.py,          *)
(* src/replit_version.py): the download dispatcher of DownloadManager, the *)
(* episode extractors, the search-result collapsing of SiteInteractor and  *)
(* the selector resolution of PatternRecognition.                          *)
(*                                                                         *)
(* Strings are sequences of tokens.  A token stands for a run of           *)
(* characters; Subs(t) lists the needles the code looks for that occur     *)
(* inside the token, so Python's `needle in s` is "some token of s holds   *)
(* the needle" and s.startswith(p) is "p is a prefix of s".                *)
(***************************************************************************)
EXTENDS Integers, Sequences, FiniteSets, TLC

\* ------------------------------------------------------------------ bounds
MaxLinks == 2      \* longest candidate list handed to download_anime_episode
MaxElems == 4      \* most elements an episode selector matches on a page
MaxCards == 3      \* most result cards on a search page
MaxCount == 3      \* most elements one selector matches on a page

\* ----------------------------------------------------------------- strings
\* str.lower() on one token
LowerTok(t) ==
    CASE t = "MediaFire" -> "mediafire"
      [] t = "Google"    -> "google"
      [] t = "Drive"     -> "drive"
      [] t = "Unknown"   -> "unknown"
      [] t = "Server"    -> "server"
      [] t = "Title"     -> "title"
      [] t = "A"         -> "a"
      [] t = "B"         -> "b"
      [] t = "Other"     -> "other"
      [] OTHER           -> t

\* str.lower()
Lower(s) == [i \in DOMAIN s |-> LowerTok(s[i])]

\* the needles that occur inside one token
Subs(t) ==
    CASE t = "mediafire.com"    -> {"mediafire.com", "mediafire"}
      [] t = "drive.google.com" -> {"drive.google.com", "drive.google", "google", "drive"}
      [] t = "4shared.com"      -> {"4shared.com", "4shared"}
      [] OTHER                  -> {t}

\* needle in s
Contains(s, needle) == \E i \in DOMAIN s : needle \in Subs(s[i])

\* s.startswith(p)
StartsWith(s, p) == Len(s) >= Len(p) /\ SubSeq(s, 1, Len(p)) = p

\* ------------------------------------------------------------------ inputs
\* host labels (the text of a server element, or the label derived from the URL)
Hosts == { <<"MediaFire">>,
           <<"Google", " ", "Drive">>,
           <<"4shared">>,
           <<"Unknown", " ", "Server">>,
           <<>> }

UrlMediaFire == <<"https://", "www.", "mediafire.com", "/", "file/y">>
UrlGDrive    == <<"https://", "drive.google.com", "/", "file/d/x">>
Url4shared   == <<"https://", "4shared.com", "/", "x">>
UrlDirect    == <<"https://", "cdn.example", "/", "v.mp4">>
\* a MediaFire URL that carries a Google Drive address in its query string
UrlBoth      == <<"https://", "www.", "mediafire.com", "/", "?u=", "drive.google.com">>

Urls == { UrlMediaFire, UrlGDrive, Url4shared, UrlDirect, UrlBoth }

Links == [host : Hosts, url : Urls]

\* the candidate lists of at most n links
LinkLists(n) == UNION { [1..k -> Links] : k \in 0..n }

VARIABLES
    pc,                \* the operation in progress ("idle" between operations)
    download_links,    \* download_anime_episode: the argument
    dir_ok,            \* download_anime_episode: the destination directories can be created
    prioritized_links, \* download_anime_episode: mediafire + google + other
    idx,               \* download_anime_episode: position of the for loop
    attempts,          \* the _download_file invocations so far: link, adapter, outcome
    dl_result,         \* download_anime_episode: "none" while running, then "True" or "False"
    ep_variant,        \* extract_episodes: the branch taken ("none" outside a call)
    ep_elements,       \* extract_episodes: the elements found, in discovery order
    ep_yield,          \* extract_episodes: the number each element yielded, <<>> for none
    episodes,          \* extract_episodes: the list returned
    search_cards,      \* search_anime: the title and href of the cards found, in page order
    search_results,    \* search_anime: the list returned
    page,              \* the live document: selector -> number of elements it matches
    channel_ok,        \* the browser session answers (FALSE: every page call raises)
    fe_purpose,        \* _find_element: the key of common_patterns passed ("none" outside a call)
    fe_result,         \* _find_element: the dict returned
    navigation_patterns, \* AnimeDatabase.data["navigation_patterns"]: site -> pattern
    database_file,     \* the navigation patterns in the JSON file written by save()
    recorded,          \* site -> the pattern last passed to add_navigation_pattern
    ad_purpose,        \* adapt_to_changes / update_site_pattern: the purpose analysed
    ad_path,           \* adapt_to_changes: "learn", "cheap" (pattern works) or "rescan"
    new_pattern,       \* the new_pattern argument of update_site_pattern
    pattern_result,    \* the pattern a PatternRecognition or AnimeDatabase call returned
    gd_url,            \* _download_from_google_drive: the url argument
    gd_cookies,        \* response.cookies of the initial request, in items() order
    gd_requests,       \* the GET requests issued, in order: [url, outcome]
    gd_result,         \* what _download_from_google_drive returned
    download_queue,    \* DownloadManager.download_queue: items [link, status, progress]
    download_calls,    \* per queue item, the number of _download_file calls made for it
    q_idx,             \* process_queue: the position of its for loop, 0 outside a call
    mf_file_data,      \* _download_mediafire_with_progress: the file_data argument
    mf_outcome,        \* its effects: [disk, digest, message, result]
    tr_call,           \* a transfer loop: [loop, status, header, chunks, stream, tick]
    tr_outcome,        \* its effects: [written, progress, result]
    cli_mode,          \* CLI.start: "interactive" or "args" (one operation, then the end)
    process,           \* "running", "exit0" (sys.exit(0) or the end of start), "error"
    browser,           \* SiteInteractor.browser: "None" or "open"
    guarded,           \* the CLI operation in progress has a finally clause that closes the browser
    cli_op,            \* the CLI operation in progress, "none" at the menu
    cli_todo,          \* _download_episodes: the episodes not yet processed
    cli_links,         \* _download_episodes: download_links of the current episode
    cli_prioritized,   \* _download_episodes: prioritized_links of the current episode
    cli_idx,           \* _download_episodes: position in prioritized_links
    cli_handed,        \* the links handed to download_anime_episode for the current episode
    cli_success,       \* _download_episodes: success
    last_failure,      \* the last failure of the operation: "none", "search", "episodes",
                       \* "links", "download" or "browser" (the browser could not be started)
    interrupted,       \* SIGINT was received
    cli_tabs,          \* per clicked anchor of the current episode, the tabs left open after it
    double_start       \* start_browser was called while SiteInteractor held a session

dl_vars == <<download_links, dir_ok, prioritized_links, idx, attempts, dl_result>>
ep_vars == <<ep_variant, ep_elements, ep_yield, episodes>>
se_vars == <<search_cards, search_results>>
env_vars == <<page, channel_ok>>
fe_vars == <<fe_purpose, fe_result>>
db_vars == <<navigation_patterns, database_file, recorded>>
ad_vars == <<ad_purpose, ad_path, new_pattern, pattern_result>>
pr_vars == <<env_vars, fe_vars, db_vars, ad_vars>>
gd_vars == <<gd_url, gd_cookies, gd_requests, gd_result>>
q_vars == <<download_queue, download_calls, q_idx>>
mf_vars == <<mf_file_data, mf_outcome>>
tr_vars == <<tr_call, tr_outcome>>
cli_vars == <<cli_mode, process, browser, guarded, cli_op, cli_todo, cli_links,
              cli_prioritized, cli_idx, cli_handed, cli_success, last_failure, interrupted,
              cli_tabs, double_start>>
call_vars == <<gd_vars, q_vars, mf_vars, tr_vars, cli_vars>>
vars == <<pc, dl_vars, ep_vars, se_vars, pr_vars, call_vars>>

\* --------------------------------------------------- DownloadManager, anime.py
\* the filter of mediafire_links
IsMediafireLink(link) ==
    \/ /\ Contains(Lower(link.host), "mediafire")
       /\ Contains(Lower(link.url), "mediafire.com")
    \/ StartsWith(Lower(link.url), <<"https://", "www.", "mediafire.com", "/">>)
    \/ StartsWith(Lower(link.url), <<"https://", "mediafire.com", "/">>)

\* the filter of google_links
IsGoogleLink(link) ==
    /\ Contains(Lower(link.host), "google") \/ Contains(Lower(link.host), "drive")
    /\ \/ Contains(Lower(link.url), "drive.google.com")
       \/ Contains(Lower(link.url), "drive.usercontent.google.com")

IsOtherLink(link) == ~IsMediafireLink(link) /\ ~IsGoogleLink(link)

\* mutant: the Google Drive group is put before the MediaFire group
PrioritizeGoogleFirst(links) ==
    SelectSeq(links, IsGoogleLink) \o SelectSeq(links, IsMediafireLink)
        \o SelectSeq(links, IsOtherLink)

\* prioritized_links = mediafire_links + google_links + other_links
Prioritize(links) ==
    SelectSeq(links, IsMediafireLink) \o SelectSeq(links, IsGoogleLink)
        \o SelectSeq(links, IsOtherLink)

\* the if/elif chain of _download_file: the adapter the link is handed to
SelectAdapter(link) ==
    LET host == Lower(link.host)
        url  == link.url
    IN  IF Contains(host, "google") \/ Contains(host, "drive") THEN "google_drive"
        ELSE IF \/ Contains(Lower(url), "mediafire.com")
                \/ (Contains(host, "mediafire") /\ ~Contains(host, "4shared")) THEN "mediafire"
        ELSE IF Contains(host, "mega") THEN "mega"
        ELSE IF Contains(host, "dropbox") THEN "dropbox"
        ELSE IF Contains(host, "mp4upload") THEN "mp4upload"
        ELSE IF Contains(host, "solidfiles") THEN "solidfiles"
        ELSE IF Contains(host, "4shared") THEN "4shared"
        ELSE "generic"

\* the if/elif chain of _download_file in anime_backup.py
SelectAdapterBackup(link) ==
    LET host == Lower(link.host)
    IN  IF Contains(host, "google") \/ Contains(host, "drive") THEN "google_drive"
        ELSE IF Contains(host, "mediafire") THEN "mediafire"
        ELSE IF Contains(host, "mega") THEN "mega"
        ELSE IF Contains(host, "dropbox") THEN "dropbox"
        ELSE IF Contains(host, "mp4upload") THEN "mp4upload"
        ELSE IF Contains(host, "solidfiles") THEN "solidfiles"
        ELSE "generic"

\* the early `return False` of the adapters: what an adapter can do with a URL.
\* _download_from_google_drive needs a file id (drive.google.com/file/d/<id>),
\* _download_from_mediafire needs mediafire.com in the URL, _download_from_4shared
\* needs 4shared.com in the URL; the others hand the URL to requests.get, which
\* raises for a URL that is not http(s).
AdapterAccepts(adapter, url) ==
    CASE adapter = "google_drive" ->
            /\ Len(url) >= 4
            /\ url[1] \in {"https://", "http://"}
            /\ url[2] = "drive.google.com"
            /\ url[3] = "/"
            /\ url[4] = "file/d/x"
      [] adapter = "mediafire" -> Contains(Lower(url), "mediafire.com")
      [] adapter = "4shared"   -> Contains(Lower(url), "4shared.com")
      [] OTHER -> url # <<>> /\ url[1] \in {"https://", "http://"}

\* what one adapter call can do: return True, return False, or raise
AdapterOutcomes(adapter, url) ==
    IF AdapterAccepts(adapter, url) THEN {"ok", "fail", "raise"} ELSE {"fail"}

\* _download_file: the adapter's result, an exception turned into False
DownloadFileResult(outcome) == outcome = "ok"

\* ---------------------------------------------- _download_from_google_drive
MaxCookies == 2

\* the url arguments: the three forms the file-id patterns find, and a folder
GDriveUrls == { UrlGDrive,
                <<"https://", "drive.google.com", "/", "open?id=x">>,
                <<"https://", "drive.google.com", "/", "uc?id=x">>,
                <<"https://", "drive.google.com", "/", "drive/folders/x">> }

\* the cookies a response can carry; a name is a sequence of tokens
Cookies == { [name |-> <<"download_warning", "_123">>, value |-> "TOKEN"],
             [name |-> <<"download_warning", "_9">>,   value |-> "TOKEN9"],
             [name |-> <<"NID">>,                      value |-> "n"],
             [name |-> <<"x_", "download_warning">>,   value |-> "t" ] }

CookieJars(n) == UNION { [1..k -> Cookies] : k \in 0..n }

\* the file id the three patterns extract from the url, "None" without a match
FileId(url) ==
    IF /\ Len(url) >= 4
       /\ url[1] \in {"https://", "http://"}
       /\ url[2] = "drive.google.com"
       /\ url[3] = "/"
       /\ url[4] \in {"file/d/x", "open?id=x", "uc?id=x"}
    THEN "x" ELSE "None"

\* download_url = f"https://drive.google.com/uc?id={file_id}&export=download"
DirectUrl(file_id) == <<"https://drive.google.com/uc?id=", file_id, "&export=download">>

RECURSIVE TransferUrlFrom(_, _, _)
\* the loop over response.cookies.items() from position i: the first cookie
\* whose name starts with download_warning appends &confirm=<value>
TransferUrlFrom(download_url, cookies, i) ==
    IF i > Len(cookies) THEN download_url
    ELSE IF StartsWith(cookies[i].name, <<"download_warning">>)
    THEN download_url \o <<"&confirm=", cookies[i].value>>
    ELSE TransferUrlFrom(download_url, cookies, i + 1)

\* mutant: the transfer always uses the unmodified download URL
TransferUrlUnmodified(download_url, cookies) == download_url

\* the URL handed to _download_with_progress
TransferUrl(download_url, cookies) == TransferUrlFrom(download_url, cookies, 1)

\* ------------------- _download_mediafire_with_progress, anime_backup.py
\* the file_data argument: None or an empty dict, file info without a hash,
\* file info with the hash "h1"
NoFileData == [k \in {} |-> ""]
FileDatas == { NoFileData, [filename |-> "f"], [filename |-> "f", hash |-> "h1"] }

\* the SHA-256 digests the downloaded bytes can have
Digests == {"h1", "h2"}

\* the HTTP statuses of the response
Statuses == {200, 399, 400, 404, 599, 600}

\* `if 400 <= response.status < 600`
IsHttpError(status) == 400 <= status /\ status < 600

\* before a call: no file, no digest, no message, no result
NoOutcome == [disk |-> "absent", digest |-> "none", message |-> "none", result |-> "none"]

\* mutant: a digest that differs from the expected hash fails the transfer
\* and removes the file
MediafireOutcomeStrict(connect, status, stream, file_data, content, hashing) ==
    IF connect = "raise" \/ IsHttpError(status)
    THEN [NoOutcome EXCEPT !.result = "False"]
    ELSE IF stream = "raise"
    THEN [NoOutcome EXCEPT !.disk = "partial", !.result = "False"]
    ELSE IF file_data # NoFileData /\ "hash" \in DOMAIN file_data
    THEN IF hashing = "raise"
         THEN [NoOutcome EXCEPT !.disk = content, !.result = "False"]
         ELSE IF content = file_data["hash"]
         THEN [disk |-> content, digest |-> content, message |-> "verified", result |-> "True"]
         ELSE [disk |-> "absent", digest |-> content, message |-> "warning", result |-> "False"]
    ELSE [NoOutcome EXCEPT !.disk = content, !.result = "True"]

\* _download_mediafire_with_progress(url, destination, file_data): the
\* request, the status test, the chunk loop, the hash comparison; every
\* exception is turned into False
MediafireOutcome(connect, status, stream, file_data, content, hashing) ==
    IF connect = "raise" \/ IsHttpError(status)
    THEN [NoOutcome EXCEPT !.result = "False"]
    ELSE IF stream = "raise"
    THEN [NoOutcome EXCEPT !.disk = "partial", !.result = "False"]
    ELSE IF file_data # NoFileData /\ "hash" \in DOMAIN file_data
    THEN IF hashing = "raise"
         THEN [NoOutcome EXCEPT !.disk = content, !.result = "False"]
         ELSE IF content = file_data["hash"]
         THEN [disk |-> content, digest |-> content, message |-> "verified", result |-> "True"]
         ELSE [disk |-> content, digest |-> content, message |-> "warning", result |-> "True"]
    ELSE [NoOutcome EXCEPT !.disk = content, !.result = "True"]

\* ------------------------- the transfer loops of DownloadManager, anime.py
MaxChunks == 2

\* the content-length header of the response: absent, or its text, which
\* int() accepts (value) or rejects
NoHeader == [present |-> FALSE, numeric |-> TRUE, value |-> 0]
ContentLengths == { NoHeader,
                    [present |-> TRUE, numeric |-> TRUE, value |-> 0],
                    [present |-> TRUE, numeric |-> TRUE, value |-> 1],
                    [present |-> TRUE, numeric |-> TRUE, value |-> MaxChunks],
                    [present |-> TRUE, numeric |-> FALSE, value |-> 0] }

\* _download_with_progress and the loop at the end of _download_from_4shared
TransferLoops == {"_download_with_progress", "_download_from_4shared"}

\* the transfers: the response status, the header, the number of non-empty
\* chunks the body holds, whether the stream breaks after them, and the first
\* chunk at which time.time() has advanced past start_time (0: at none)
Transfers == [loop : TransferLoops, status : Statuses, header : ContentLengths,
              chunks : 0..MaxChunks, stream : {"ok", "raise"}, tick : 0..MaxChunks]

NoTransfer == [loop |-> "none", status |-> 200, header |-> NoHeader, chunks |-> 0,
               stream |-> "ok", tick |-> 0]
NoTransferOutcome == [written |-> 0, progress |-> 0, result |-> "none"]

\* total_size = int(response.headers.get('content-length', 0))
TotalSize(header) == IF header.present THEN header.value ELSE 0

\* `self._format_size(speed)`: DownloadManager has no attribute _format_size
HasFormatSize == FALSE

\* the chunk at which the progress line of the 4shared loop raises
\* AttributeError, 0 when it raises at none: the first chunk written with
\* total_size > 0 and elapsed_time > 0
FormatSizeRaisesAt(t) ==
    IF /\ t.loop = "_download_from_4shared"
       /\ ~HasFormatSize
       /\ TotalSize(t.header) > 0
       /\ t.tick \in 1..t.chunks
    THEN t.tick
    ELSE 0

\* what a transfer loop does: raise_for_status, int() of the header, the
\* chunk loop with its progress lines; every exception gives False
TransferOutcome(t) ==
    IF IsHttpError(t.status) \/ ~t.header.numeric
    THEN [written |-> 0, progress |-> 0, result |-> "False"]
    ELSE IF FormatSizeRaisesAt(t) > 0
    THEN [written |-> FormatSizeRaisesAt(t), progress |-> FormatSizeRaisesAt(t) - 1,
          result |-> "False"]
    ELSE [written |-> t.chunks,
          progress |-> IF TotalSize(t.header) > 0 THEN t.chunks ELSE 0,
          result |-> IF t.stream = "ok" THEN "True" ELSE "False"]

\* ------------------------------------------------------- episode extractors
\* Episode numbers are strings of characters.  DigitChars are the characters
\* int() accepts; "²" is a character str.isdigit() accepts and int() rejects.
DigitChars == {"0", "1", "2", "3", "4", "5", "6", "7", "8", "9"}

DigitVal(c) ==
    CASE c = "0" -> 0 [] c = "1" -> 1 [] c = "2" -> 2 [] c = "3" -> 3 [] c = "4" -> 4
      [] c = "5" -> 5 [] c = "6" -> 6 [] c = "7" -> 7 [] c = "8" -> 8 [] c = "9" -> 9

DigitChar(d) ==
    CASE d = 0 -> "0" [] d = 1 -> "1" [] d = 2 -> "2" [] d = 3 -> "3" [] d = 4 -> "4"
      [] d = 5 -> "5" [] d = 6 -> "6" [] d = 7 -> "7" [] d = 8 -> "8" [] d = 9 -> "9"

\* x["number"].isdigit()
IsDigit(s) == s # <<>> /\ \A i \in DOMAIN s : s[i] \in DigitChars \cup {"²"}

\* int(x["number"]) raises ValueError
IntRaises(s) == \E i \in DOMAIN s : s[i] \notin DigitChars

\* int(x["number"])
RECURSIVE IntOf(_)
IntOf(s) == IF s = <<>> THEN 0 ELSE 10 * IntOf(SubSeq(s, 1, Len(s) - 1)) + DigitVal(s[Len(s)])

\* str(n)
RECURSIVE Str(_)
Str(n) == IF n < 10 THEN <<DigitChar(n)>> ELSE Str(n \div 10) \o <<DigitChar(n % 10)>>

\* the numbers a \d+ group captures on the pages considered
NumStrs == { <<"1">>, <<"2">>, <<"3">>, <<"0", "2">> }
\* the texts of a link element that pass isdigit()
TextStrs == NumStrs \cup { <<"²">> }
Unknown == <<"Unknown">>

\* A link: the URL carried by the element at position i of the discovery order,
\* the URL built from an episode number, or the URL of the anime page.
ElemLink(i)  == [kind |-> "elem", i |-> i, num |-> <<>>]
BuiltLink(n) == [kind |-> "built", i |-> 0, num |-> n]
PageLink     == [kind |-> "page", i |-> 0, num |-> <<>>]

\* What the code reads from one element:
\*   num     a \d+ regex gives the number from the URL or the text
\*   text    (standard branch) the text of the link element is all digits
\*   seq     no number found: a sequential number is generated
\*   card    (witanime branch) no onclick, number in the parent card, URL built
\*   unknown (standard branch) no number anywhere: "Unknown"
\*   skip    no link, no number, or an exception: the element is passed over
WitanimeElems == [kind : {"num", "card"}, num : NumStrs]
                    \cup { [kind |-> "seq", num |-> <<>>], [kind |-> "skip", num |-> <<>>] }
StandardElems == [kind : {"num"}, num : NumStrs] \cup [kind : {"text"}, num : TextStrs]
                    \cup { [kind |-> "unknown", num |-> <<>>], [kind |-> "skip", num |-> <<>>] }
NumberedElems == [kind : {"num"}, num : NumStrs]
ReplitElems   == [kind : {"num"}, num : NumStrs]
                    \cup { [kind |-> "seq", num |-> <<>>], [kind |-> "skip", num |-> <<>>] }

ElemLists(E, n) == UNION { [1..k -> E] : k \in 1..n }

\* d[key] = value on a dict kept in insertion order: an existing key keeps its place
DictPut(d, ep) ==
    IF \E k \in DOMAIN d : d[k].number = ep.number
    THEN [k \in DOMAIN d |-> IF d[k].number = ep.number THEN ep ELSE d[k]]
    ELSE Append(d, ep)

\* replit_version: append only when no episode has the number yet
AppendIfNew(d, ep) ==
    IF \E k \in DOMAIN d : d[k].number = ep.number THEN d ELSE Append(d, ep)

\* the number the element at position i yields, given the entries stored so far
YieldOf(e, stored) ==
    CASE e.kind \in {"num", "text", "card"} -> e.num
      [] e.kind = "seq"     -> Str(Len(stored) + 1)
      [] e.kind = "unknown" -> Unknown
      [] e.kind = "skip"    -> <<>>

\* the link stored for the element at position i
LinkOf(variant, e, i) ==
    IF variant = "numbered" THEN PageLink
    ELSE IF e.kind = "card" THEN BuiltLink(e.num)
    ELSE ElemLink(i)

\* the `for element in elements` loops: the entries stored and the numbers yielded
RECURSIVE Collect(_, _, _, _, _)
Collect(variant, elems, i, stored, yields) ==
    IF i > Len(elems) THEN [stored |-> stored, yields |-> yields]
    ELSE LET n  == YieldOf(elems[i], stored)
             ep == [number |-> n, link |-> LinkOf(variant, elems[i], i)]
         IN  IF n = <<>>
             THEN Collect(variant, elems, i + 1, stored, Append(yields, n))
             ELSE Collect(variant, elems, i + 1,
                          IF variant = "replit" THEN AppendIfNew(stored, ep)
                                                ELSE DictPut(stored, ep),
                          Append(yields, n))

\* key=lambda x: int(x["number"]) if x["number"].isdigit() else float('inf')
KeyIsInf(ep) == ~IsDigit(ep.number)
KeyLeq(a, b) ==
    IF KeyIsInf(b) THEN TRUE
    ELSE IF KeyIsInf(a) THEN FALSE
    ELSE IntOf(a.number) <= IntOf(b.number)

\* list.sort is stable: x goes after every entry whose key is not greater
RECURSIVE InsertSorted(_, _)
InsertSorted(sorted, x) ==
    IF sorted = <<>> THEN <<x>>
    ELSE IF KeyLeq(sorted[Len(sorted)], x) THEN Append(sorted, x)
    ELSE Append(InsertSorted(SubSeq(sorted, 1, Len(sorted) - 1), x), sorted[Len(sorted)])

\* mutant: the list is returned in dict order, unsorted
NoSort(s, i) == s

RECURSIVE SortFrom(_, _)
SortFrom(s, i) ==
    IF i = 0 THEN <<>> ELSE InsertSorted(SortFrom(s, i - 1), s[i])

\* episodes.sort(key=...); the ValueError of int() is caught by the outer
\* `except Exception` of extract_episodes, which returns []
SortEpisodes(s) ==
    IF \E k \in DOMAIN s : IsDigit(s[k].number) /\ IntRaises(s[k].number)
    THEN <<>>
    ELSE SortFrom(s, Len(s))

\* the list an extractor returns for the elements found
ExtractResult(variant, elems) == SortEpisodes(Collect(variant, elems, 1, <<>>, <<>>).stored)

\* ------------------------------------------------- SiteInteractor.search_anime
\* A link is a base (scheme and host, "" for a relative href) and the path
\* segments after it: "/anime/x/" is <<"anime", "x", "">>.
BaseUrl == "https://witanime.cyou"
NoHref  == [base |-> "", path |-> <<>>]      \* get_attribute("href") gave None

Hrefs == { [base |-> "",      path |-> <<"anime", "x">>],
           [base |-> BaseUrl, path |-> <<"anime", "x", "">>],
           [base |-> "",      path |-> <<"anime-type", "x">>],
           [base |-> "",      path |-> <<"anime", "y">>],
           NoHref }

Titles == { <<"Title", " ", "A">>, <<"Title", " ", "B">>, <<"Other">> }

\* the query typed by the user
Query == <<"Title">>

Cards == [title : Titles, href : Hrefs]
CardLists(n) == UNION { [1..k -> Cards] : k \in 1..n }

\* if link and not link.startswith("http"): link = base_url + link
Absolute(href) == IF href.base = "" THEN [base |-> BaseUrl, path |-> href.path] ELSE href

\* re.search(r'(https?://[^/]+/anime/[^/]+)/?', link): group(1) when it matches
NormalizeLink(link) ==
    IF Len(link.path) >= 2 /\ link.path[1] = "anime" /\ link.path[2] # ""
    THEN [base |-> link.base, path |-> <<"anime", link.path[2]>>]
    ELSE link

\* "/seg/" in link
HasSegment(link, seg) == \E i \in 1..(Len(link.path) - 1) : link.path[i] = seg

\* query.lower() in title.lower()
MatchesQuery(title) == Contains(Lower(title), LowerTok(Query[1]))

\* the test that lets a later card of a seen title replace the stored link
Upgrades(new, old) == HasSegment(new, "anime") /\ HasSegment(old, "anime-type")

\* mutant: the stored link of a seen title is never replaced
NeverUpgrades(new, old) == FALSE

\* results[i]["link"] = normalized_link for the first result with the title
SetLink(results, title, link) ==
    LET i == CHOOSE k \in DOMAIN results :
                results[k].title = title /\ \A j \in 1..(k - 1) : results[j].title # title
    IN  [results EXCEPT ![i].link = link]

\* the body of `for element in elements` on the state (results, seen_urls,
\* normalized_urls); a card without href raises in re.search and is passed over
ProcessCard(st, card) ==
    IF card.href = NoHref THEN st
    ELSE LET normalized == NormalizeLink(Absolute(card.href))
             title == card.title
         IN  IF normalized \in st.seen_urls THEN st
             ELSE IF ~MatchesQuery(title) THEN st
             ELSE IF title \in DOMAIN st.normalized_urls
                  THEN IF Upgrades(normalized, st.normalized_urls[title])
                       THEN [results |-> SetLink(st.results, title, normalized),
                             seen_urls |-> (st.seen_urls \ {st.normalized_urls[title]})
                                                \cup {normalized},
                             normalized_urls |-> [st.normalized_urls EXCEPT ![title] = normalized]]
                       ELSE st
                  ELSE [results |-> Append(st.results, [title |-> title, link |-> normalized]),
                        seen_urls |-> st.seen_urls \cup {normalized},
                        normalized_urls |-> (title :> normalized) @@ st.normalized_urls]

RECURSIVE ProcessCards(_, _)
ProcessCards(cards, n) ==
    IF n = 0 THEN [results |-> <<>>, seen_urls |-> {}, normalized_urls |-> <<>>]
    ELSE ProcessCard(ProcessCards(cards, n - 1), cards[n])

\* the list search_anime returns for the cards found
SearchResults(cards) == ProcessCards(cards, Len(cards)).results

\* ------------------------------------------------------- PatternRecognition
Purposes == {"search_box", "search_button", "anime_items", "title", "episode_items",
             "download_buttons", "server_items"}

\* self.common_patterns (the two Arabic words are written in Latin letters:
\* bahth = search, tahmil = download)
common_patterns(purpose) ==
    CASE purpose = "search_box" ->
            << "input[type='search']", "input[name='s']", ".search-input", ".search-field",
               "input[placeholder*='search' i]", "input[placeholder*='bahth' i]" >>
      [] purpose = "search_button" ->
            << "button[type='submit']", "input[type='submit']", ".search-submit",
               "button.search-button", "i.fa-search" >>
      [] purpose = "anime_items" ->
            << ".anime-item", ".anime-card", "article", ".post", ".show-card", ".anime-block",
               ".result-item" >>
      [] purpose = "title" ->
            << "h2", "h3", ".title", ".name", ".anime-title", ".post-title" >>
      [] purpose = "episode_items" ->
            << ".episode-item", ".episode-card", ".eps-item", ".episode", ".ep-card" >>
      [] purpose = "download_buttons" ->
            << "a.download", "a:has-text('Download')", "a:has-text('tahmil')",
               ".download-button", ".btn-download" >>
      [] purpose = "server_items" ->
            << ".server-item", ".server-list-item", ".mirror-item", ".download-server",
               ".server" >>

\* the selectors that hold a single quote
QuotedSelectors ==
    { "input[type='search']", "input[name='s']", "input[placeholder*='search' i]",
      "input[placeholder*='bahth' i]", "button[type='submit']", "input[type='submit']",
      "a:has-text('Download')", "a:has-text('tahmil')" }

\* the selectors that match elements on some page considered; every other
\* selector matches nothing on every page
PageSelectors == { "input[type='search']", ".search-input", ".search-field", ".anime-card" }

Pages == [PageSelectors -> 0..MaxCount]

\* document.querySelectorAll(selector).length on the live document
MatchCount(pg, selector) == IF selector \in DOMAIN pg THEN pg[selector] ELSE 0

\* page.evaluate(f"document.querySelectorAll('{selector}').length") raises: the
\* session is gone, or the selector's own quote ends the JavaScript string
\* literal and the expression does not parse
EvaluateRaises(ok, selector) == ~ok \/ selector \in QuotedSelectors

\* mutant: the confidence is not capped
ConfidenceUncapped(count) == 20 * count + 50

\* min(count/5 + 0.5, 0.95), in hundredths
Confidence(count) == IF 20 * count + 50 < 95 THEN 20 * count + 50 ELSE 95

NoneResult == [selector |-> "None", confidence |-> 0, count |-> 0]

\* mutant: no selector found is an error result
RECURSIVE FindFromRaisesOnNone(_, _, _, _)
FindFromRaisesOnNone(pg, ok, selectors, i) ==
    IF i > Len(selectors) THEN [selector |-> "raise", confidence |-> 0, count |-> 0]
    ELSE IF EvaluateRaises(ok, selectors[i]) THEN FindFromRaisesOnNone(pg, ok, selectors, i + 1)
    ELSE IF MatchCount(pg, selectors[i]) > 0
         THEN [selector |-> selectors[i],
               confidence |-> Confidence(MatchCount(pg, selectors[i])),
               count |-> MatchCount(pg, selectors[i])]
         ELSE FindFromRaisesOnNone(pg, ok, selectors, i + 1)

\* the `for selector in selectors` loop of _find_element from position i
RECURSIVE FindFrom(_, _, _, _)
FindFrom(pg, ok, selectors, i) ==
    IF i > Len(selectors) THEN NoneResult
    ELSE IF EvaluateRaises(ok, selectors[i]) THEN FindFrom(pg, ok, selectors, i + 1)
    ELSE IF MatchCount(pg, selectors[i]) > 0
         THEN [selector |-> selectors[i],
               confidence |-> Confidence(MatchCount(pg, selectors[i])),
               count |-> MatchCount(pg, selectors[i])]
         ELSE FindFrom(pg, ok, selectors, i + 1)

\* _find_element(page, selectors)
FindElementResult(pg, ok, selectors) == FindFrom(pg, ok, selectors, 1)

Sites == {"witanime.cyou"}
NoPattern == [p \in {} |-> NoneResult]      \* no entry for the site

\* the pattern learn_site_structure builds
LearnedPattern(pg, ok) == [p \in Purposes |-> FindElementResult(pg, ok, common_patterns(p))]

\* the purposes analyze_page distinguishes; any other value analyses everything
AnalyzePurposes == {"search", "anime_list", "episode_list", "download_page", "all"}

\* the keys of the result of analyze_page(page, purpose)
AnalyzeKeys(purpose) ==
    CASE purpose = "search"        -> {"search_box", "search_button"}
      [] purpose = "anime_list"    -> {"anime_items", "title"}
      [] purpose = "episode_list"  -> {"episode_items"}
      [] purpose = "download_page" -> {"download_buttons", "server_items"}
      [] OTHER                     -> Purposes

\* analyze_page(page, purpose)
AnalyzePage(pg, ok, purpose) ==
    [p \in AnalyzeKeys(purpose) |-> FindElementResult(pg, ok, common_patterns(p))]

\* get_navigation_pattern(site)
get_navigation_pattern(store, site) == store[site]

\* mutant: a site that has a pattern keeps it
AddKeepsExisting(store, site, pattern) ==
    IF store[site] = NoPattern THEN [store EXCEPT ![site] = pattern] ELSE store

\* add_navigation_pattern(site, pattern): self.data["navigation_patterns"][site] = pattern
add_navigation_pattern(store, site, pattern) == [store EXCEPT ![site] = pattern]

\* mutant: every new entry overwrites, with or without a selector
OverwritesAlways(value) == TRUE

\* the test of update_site_pattern for overwriting the entry of a key
Overwrites(value) == value.selector # "None" /\ value.confidence > 50

\* mutant: the validation looks at the first stored selector only
PatternWorksAny(existing, pg, ok) ==
    \E p \in DOMAIN existing :
        /\ existing[p].selector # "None"
        /\ ~EvaluateRaises(ok, existing[p].selector)
        /\ MatchCount(pg, existing[p].selector) # 0

\* the validation loop of adapt_to_changes: pattern_works
PatternWorks(existing, pg, ok) ==
    \A p \in DOMAIN existing :
        existing[p].selector # "None" =>
            /\ ~EvaluateRaises(ok, existing[p].selector)
            /\ MatchCount(pg, existing[p].selector) # 0

\* the pattern update_site_pattern hands to add_navigation_pattern
MergedPattern(existing, new) ==
    IF existing # NoPattern
    THEN [p \in DOMAIN existing \cup {k \in DOMAIN new : Overwrites(new[k])} |->
            IF p \in DOMAIN new /\ Overwrites(new[p])
            THEN new[p] ELSE existing[p]]
    ELSE new

\* no operation in progress
IdleCalls ==
    /\ pc = "idle"
    /\ download_links = <<>>
    /\ dir_ok = TRUE
    /\ prioritized_links = <<>>
    /\ idx = 0
    /\ attempts = <<>>
    /\ dl_result = "none"
    /\ ep_variant = "none"
    /\ ep_elements = <<>>
    /\ ep_yield = <<>>
    /\ episodes = <<>>
    /\ search_cards = <<>>
    /\ search_results = <<>>
    /\ fe_purpose = "none"
    /\ fe_result = NoneResult
    /\ ad_purpose = "none"
    /\ ad_path = "none"
    /\ new_pattern = NoPattern
    /\ pattern_result = NoPattern
    /\ gd_url = <<>>
    /\ gd_cookies = <<>>
    /\ gd_requests = <<>>
    /\ gd_result = "none"
    /\ mf_file_data = NoFileData
    /\ mf_outcome = NoOutcome
    /\ tr_call = NoTransfer
    /\ tr_outcome = NoTransferOutcome

\* DownloadManager.__init__: an empty queue
NewDownloadManager ==
    /\ download_queue = <<>>
    /\ download_calls = <<>>
    /\ q_idx = 0

\* CLI.__init__ and the start of the process: no browser, no operation
NewCLI ==
    /\ process = "running"
    /\ browser = "None"
    /\ guarded = FALSE
    /\ cli_op = "none"
    /\ cli_todo = 0
    /\ cli_links = <<>>
    /\ cli_prioritized = <<>>
    /\ cli_idx = 0
    /\ cli_handed = <<>>
    /\ cli_success = FALSE
    /\ last_failure = "none"
    /\ interrupted = FALSE
    /\ cli_tabs = <<>>
    /\ double_start = FALSE

\* a new database: _load_database finds no file
Init ==
    /\ IdleCalls
    /\ NewDownloadManager
    /\ NewCLI
    /\ cli_mode = "interactive"
    /\ page = [sel \in PageSelectors |-> 0]
    /\ channel_ok = TRUE
    /\ navigation_patterns = [site \in Sites |-> NoPattern]
    /\ database_file = [site \in Sites |-> NoPattern]
    /\ recorded = [site \in Sites |-> NoPattern]

\* download_anime_episode, up to the for loop
DownloadAnimeEpisode ==
    /\ pc = "idle"
    /\ \E links \in LinkLists(MaxLinks), ok \in BOOLEAN :
        /\ download_links' = links
        /\ dir_ok' = ok
        /\ attempts' = <<>>
        /\ IF links = <<>>
           THEN /\ prioritized_links' = <<>>
                /\ idx' = 0
                /\ dl_result' = "False"
                /\ pc' = "dl_done"
           ELSE IF Prioritize(links) = <<>>
           THEN /\ prioritized_links' = Prioritize(links)
                /\ idx' = 0
                /\ dl_result' = "False"
                /\ pc' = "dl_done"
           ELSE IF ~ok
           THEN \* download_path.mkdir fails: return False; anime_folder.mkdir
                \* fails: the exception leaves download_anime_episode
                /\ prioritized_links' = Prioritize(links)
                /\ idx' = 0
                /\ dl_result' \in {"False", "raise"}
                /\ pc' = "dl_done"
           ELSE /\ prioritized_links' = Prioritize(links)
                /\ idx' = 1
                /\ dl_result' = "none"
                /\ pc' = "dl_loop"
    /\ UNCHANGED <<ep_vars, se_vars, pr_vars, call_vars>>

\* mutant: a failed attempt returns False from inside the loop
TryLinkReturnsOnFailure ==
    /\ pc = "dl_loop"
    /\ idx <= Len(prioritized_links)
    /\ LET link    == prioritized_links[idx]
           adapter == SelectAdapter(link)
       IN  \E outcome \in AdapterOutcomes(adapter, link.url) :
            /\ attempts' = Append(attempts,
                                  [link |-> link, adapter |-> adapter, outcome |-> outcome])
            /\ dl_result' = IF DownloadFileResult(outcome) THEN "True" ELSE "False"
            /\ pc' = "dl_done"
            /\ idx' = idx
    /\ UNCHANGED <<download_links, dir_ok, prioritized_links>>
    /\ UNCHANGED <<ep_vars, se_vars, pr_vars, call_vars>>

\* one iteration of `for link in prioritized_links`
TryLink ==
    /\ pc = "dl_loop"
    /\ idx <= Len(prioritized_links)
    /\ LET link    == prioritized_links[idx]
           adapter == SelectAdapter(link)
       IN  \E outcome \in AdapterOutcomes(adapter, link.url) :
            /\ attempts' = Append(attempts,
                                  [link |-> link, adapter |-> adapter, outcome |-> outcome])
            /\ IF DownloadFileResult(outcome)
               THEN /\ dl_result' = "True"
                    /\ pc' = "dl_done"
                    /\ idx' = idx
               ELSE /\ dl_result' = dl_result
                    /\ pc' = pc
                    /\ idx' = idx + 1
    /\ UNCHANGED <<download_links, dir_ok, prioritized_links>>
    /\ UNCHANGED <<ep_vars, se_vars, pr_vars, call_vars>>

\* the loop ran out: "All download attempts failed", return False
AllFailed ==
    /\ pc = "dl_loop"
    /\ idx > Len(prioritized_links)
    /\ dl_result' = "False"
    /\ pc' = "dl_done"
    /\ UNCHANGED <<download_links, dir_ok, prioritized_links, idx, attempts>>
    /\ UNCHANGED <<ep_vars, se_vars, pr_vars, call_vars>>

\* the caller takes the result; the next operation starts from a fresh call
Return ==
    /\ pc \in {"dl_done", "ep_done", "search_done", "gd_done", "mf_done", "tr_done"}
    /\ pc' = "idle"
    /\ download_links' = <<>>
    /\ dir_ok' = TRUE
    /\ prioritized_links' = <<>>
    /\ idx' = 0
    /\ attempts' = <<>>
    /\ dl_result' = "none"
    /\ ep_variant' = "none"
    /\ ep_elements' = <<>>
    /\ ep_yield' = <<>>
    /\ episodes' = <<>>
    /\ search_cards' = <<>>
    /\ search_results' = <<>>
    /\ gd_url' = <<>>
    /\ gd_cookies' = <<>>
    /\ gd_requests' = <<>>
    /\ gd_result' = "none"
    /\ mf_file_data' = NoFileData
    /\ mf_outcome' = NoOutcome
    /\ tr_call' = NoTransfer
    /\ tr_outcome' = NoTransferOutcome
    /\ UNCHANGED <<pr_vars, q_vars, cli_vars>>

\* _download_from_google_drive(url, destination): the initial session.get, the
\* cookie loop and _download_with_progress, whose exceptions become False
DownloadFromGoogleDrive ==
    /\ pc = "idle"
    /\ \E url \in GDriveUrls, jar \in CookieJars(MaxCookies),
          first \in {"ok", "raise"}, transfer \in {"ok", "fail"} :
        /\ gd_url' = url
        /\ IF FileId(url) = "None"
           THEN /\ gd_cookies' = <<>>
                /\ gd_requests' = <<>>
                /\ gd_result' = "False"
           ELSE IF first = "raise"
           THEN /\ gd_cookies' = <<>>
                /\ gd_requests' = <<[url |-> DirectUrl(FileId(url)), outcome |-> "raise"]>>
                /\ gd_result' = "False"
           ELSE /\ gd_cookies' = jar
                /\ gd_requests' =
                    << [url |-> DirectUrl(FileId(url)), outcome |-> "ok"],
                       [url |-> TransferUrl(DirectUrl(FileId(url)), jar), outcome |-> transfer] >>
                /\ gd_result' = IF transfer = "ok" THEN "True" ELSE "False"
    /\ pc' = "gd_done"
    /\ UNCHANGED <<dl_vars, ep_vars, se_vars, pr_vars, q_vars, mf_vars, tr_vars, cli_vars>>

\* anime_backup.py: _download_mediafire_with_progress(direct_url, destination, file_data)
DownloadMediafireWithProgress ==
    /\ pc = "idle"
    /\ \E connect \in {"ok", "raise"}, status \in Statuses, stream \in {"ok", "raise"},
          file_data \in FileDatas, content \in Digests, hashing \in {"ok", "raise"} :
        /\ mf_file_data' = file_data
        /\ mf_outcome' = MediafireOutcome(connect, status, stream, file_data, content, hashing)
    /\ pc' = "mf_done"
    /\ UNCHANGED <<dl_vars, ep_vars, se_vars, pr_vars, gd_vars, q_vars, tr_vars, cli_vars>>

\* _download_with_progress(url, destination, headers), or the transfer at the
\* end of _download_from_4shared
TransferWithProgress ==
    /\ pc = "idle"
    /\ \E t \in Transfers :
        /\ tr_call' = t
        /\ tr_outcome' = TransferOutcome(t)
    /\ pc' = "tr_done"
    /\ UNCHANGED <<dl_vars, ep_vars, se_vars, pr_vars, gd_vars, q_vars, mf_vars, cli_vars>>

\* SiteInteractor.search_anime on a page where the card selector found cards
SearchAnime ==
    /\ pc = "idle"
    /\ \E cards \in CardLists(MaxCards) :
        /\ search_cards' = cards
        /\ search_results' = SearchResults(cards)
    /\ pc' = "search_done"
    /\ UNCHANGED <<dl_vars, ep_vars, pr_vars, call_vars>>

\* an extractor call on a page where the selector found elems
Extract(variant, elems) ==
    /\ pc' = "ep_done"
    /\ ep_variant' = variant
    /\ ep_elements' = elems
    /\ ep_yield' = Collect(variant, elems, 1, <<>>, <<>>).yields
    /\ episodes' = ExtractResult(variant, elems)
    /\ UNCHANGED <<dl_vars, se_vars, pr_vars, call_vars>>

\* SiteInteractor.extract_episodes, witanime.cyou branch
ExtractEpisodesWitanime ==
    /\ pc = "idle"
    /\ \E elems \in ElemLists(WitanimeElems, MaxElems) : Extract("witanime", elems)

\* SiteInteractor.extract_episodes, witanime.cyou branch, numbered elements as last resort
ExtractEpisodesNumbered ==
    /\ pc = "idle"
    /\ \E elems \in ElemLists(NumberedElems, MaxElems) : Extract("numbered", elems)

\* SiteInteractor.extract_episodes, standard branch
ExtractEpisodesStandard ==
    /\ pc = "idle"
    /\ \E elems \in ElemLists(StandardElems, MaxElems) : Extract("standard", elems)

\* AnimeScraperNoPlaywright.extract_episodes
ReplitExtractEpisodes ==
    /\ pc = "idle"
    /\ \E elems \in ElemLists(ReplitElems, MaxElems) : Extract("replit", elems)

\* SiteInteractor.extract_episodes on a page where no episode selector matches
\* anything: the witanime branch tries its selectors, the two page scripts and
\* returns [], the standard branch returns [] when wait_for_selector times out.
\* Neither calls PatternRecognition or reads the navigation patterns.
ExtractEpisodesMiss ==
    /\ pc = "idle"
    /\ \E variant \in {"witanime", "standard"} : Extract(variant, <<>>)

Next ==
    \/ DownloadAnimeEpisode
    \/ TryLink
    \/ AllFailed
    \/ ExtractEpisodesWitanime
    \/ ExtractEpisodesNumbered
    \/ ExtractEpisodesStandard
    \/ ReplitExtractEpisodes
    \/ ExtractEpisodesMiss
    \/ SearchAnime
    \/ DownloadFromGoogleDrive
    \/ DownloadMediafireWithProgress
    \/ TransferWithProgress
    \/ Return

Spec == Init /\ [][Next]_vars

\* ----------------------------------------- PatternRecognition on a live page
\* the pages on which an earlier run learned the pattern found in the file
PriorPages == { pg \in Pages : /\ pg["input[type='search']"] = 0
                                /\ pg[".search-field"] = 0
                                /\ pg[".search-input"] \in {0, 1}
                                /\ pg[".anime-card"] \in {0, 1} }

\* the pattern engine is driven on one document through one browser session;
\* _load_database reads what an earlier run saved, if anything
InitPatterns ==
    /\ IdleCalls
    /\ NewDownloadManager
    /\ NewCLI
    /\ cli_mode = "interactive"
    /\ page \in Pages
    /\ channel_ok \in BOOLEAN
    /\ \E stored \in {NoPattern} \cup {LearnedPattern(pg, TRUE) : pg \in PriorPages} :
        /\ navigation_patterns = [site \in Sites |-> stored]
        /\ database_file = [site \in Sites |-> stored]
        /\ recorded = [site \in Sites |-> stored]

\* add_navigation_pattern(site, pattern) on the variables: the assignment, then
\* save(), which swallows a failed write
Record(site, pattern) ==
    /\ navigation_patterns' = add_navigation_pattern(navigation_patterns, site, pattern)
    /\ recorded' = [recorded EXCEPT ![site] = pattern]
    /\ \/ database_file' = navigation_patterns'
       \/ database_file' = database_file

\* _find_element(page, self.common_patterns[purpose])
FindElement ==
    /\ pc = "idle"
    /\ \E purpose \in Purposes :
        /\ fe_purpose' = purpose
        /\ fe_result' = FindElementResult(page, channel_ok, common_patterns(purpose))
    /\ pc' = "fe_done"
    /\ UNCHANGED <<call_vars, dl_vars, ep_vars, se_vars, env_vars, db_vars, ad_vars>>

\* learn_site_structure(site_url, page)
LearnSiteStructure ==
    /\ pc = "idle"
    /\ \E site \in Sites :
        /\ Record(site, LearnedPattern(page, channel_ok))
        /\ pattern_result' = LearnedPattern(page, channel_ok)
    /\ pc' = "learn_done"
    /\ UNCHANGED <<call_vars, dl_vars, ep_vars, se_vars, env_vars, fe_vars, ad_purpose, ad_path, new_pattern>>

\* get_navigation_pattern(site)
GetNavigationPattern ==
    /\ pc = "idle"
    /\ \E site \in Sites : pattern_result' = get_navigation_pattern(navigation_patterns, site)
    /\ pc' = "get_done"
    /\ UNCHANGED <<call_vars, dl_vars, ep_vars, se_vars, env_vars, fe_vars, db_vars, ad_purpose, ad_path, new_pattern>>

\* update_site_pattern(site_url, analyze_page(page, purpose))
UpdateSitePattern ==
    /\ pc = "idle"
    /\ \E site \in Sites, purpose \in AnalyzePurposes :
        /\ ad_purpose' = purpose
        /\ new_pattern' = AnalyzePage(page, channel_ok, purpose)
        /\ Record(site, MergedPattern(get_navigation_pattern(navigation_patterns, site),
                                      AnalyzePage(page, channel_ok, purpose)))
    /\ pc' = "update_done"
    /\ UNCHANGED <<call_vars, dl_vars, ep_vars, se_vars, env_vars, fe_vars, ad_path, pattern_result>>

\* adapt_to_changes(site_url, page, purpose)
AdaptToChanges ==
    /\ pc = "idle"
    /\ \E site \in Sites, purpose \in AnalyzePurposes :
        LET existing == get_navigation_pattern(navigation_patterns, site)
        IN  /\ ad_purpose' = purpose
            /\ IF existing = NoPattern
               THEN /\ ad_path' = "learn"
                    /\ new_pattern' = NoPattern
                    /\ Record(site, LearnedPattern(page, channel_ok))
                    /\ pattern_result' = LearnedPattern(page, channel_ok)
               ELSE IF PatternWorks(existing, page, channel_ok)
               THEN /\ ad_path' = "cheap"
                    /\ new_pattern' = NoPattern
                    /\ pattern_result' = existing
                    /\ UNCHANGED db_vars
               ELSE /\ ad_path' = "rescan"
                    /\ new_pattern' = AnalyzePage(page, channel_ok, purpose)
                    /\ Record(site, MergedPattern(existing, AnalyzePage(page, channel_ok, purpose)))
                    /\ pattern_result' = AnalyzePage(page, channel_ok, purpose)
    /\ pc' = "adapt_done"
    /\ UNCHANGED <<call_vars, dl_vars, ep_vars, se_vars, env_vars, fe_vars>>

\* the caller takes the result of a PatternRecognition call
ReturnPatterns ==
    /\ pc \in {"fe_done", "learn_done", "get_done", "update_done", "adapt_done"}
    /\ pc' = "idle"
    /\ fe_purpose' = "none"
    /\ fe_result' = NoneResult
    /\ ad_purpose' = "none"
    /\ ad_path' = "none"
    /\ new_pattern' = NoPattern
    /\ pattern_result' = NoPattern
    /\ UNCHANGED <<call_vars, dl_vars, ep_vars, se_vars, env_vars, db_vars>>

NextPatterns ==
    \/ FindElement
    \/ LearnSiteStructure
    \/ GetNavigationPattern
    \/ UpdateSitePattern
    \/ AdaptToChanges
    \/ ReturnPatterns

SpecPatterns == InitPatterns /\ [][NextPatterns]_vars

\* ------------------------------------------------- the DownloadManager queue
MaxQueue == 3

\* the links put on the queue: one its adapter can serve, one it refuses
QueueLinks == { [host |-> <<"MediaFire">>, url |-> UrlMediaFire],
                [host |-> <<"Google", " ", "Drive">>, url |-> UrlDirect] }

\* the variables the queue operations leave alone
outside_queue == <<dl_vars, ep_vars, se_vars, pr_vars, gd_vars, mf_vars, tr_vars, cli_vars>>

\* mutant: every item that is not completed is downloaded
ShouldProcessUnfinished(item) == item.status # "completed"

\* process_queue: `if item["status"] == "queued"`
ShouldProcess(item) == item.status = "queued"

\* add_to_queue(link, anime_title, episode)
AddToQueue ==
    /\ pc = "idle"
    /\ Len(download_queue) < MaxQueue
    /\ \E link \in QueueLinks :
        download_queue' = Append(download_queue, [link |-> link, status |-> "queued", progress |-> 0])
    /\ download_calls' = Append(download_calls, 0)
    /\ UNCHANGED <<pc, q_idx, outside_queue>>

\* process_queue(): the for loop starts
ProcessQueue ==
    /\ pc = "idle"
    /\ pc' = "pq_loop"
    /\ q_idx' = 1
    /\ UNCHANGED <<download_queue, download_calls, outside_queue>>

\* process_queue: an item that is not queued is passed over
ProcessQueueSkip ==
    /\ pc = "pq_loop"
    /\ q_idx <= Len(download_queue)
    /\ ~ShouldProcess(download_queue[q_idx])
    /\ q_idx' = q_idx + 1
    /\ UNCHANGED <<pc, download_queue, download_calls, outside_queue>>

\* process_queue: a queued item becomes "downloading" and its directory is
\* made; an error of mkdir ends the call
ProcessQueueStart ==
    /\ pc = "pq_loop"
    /\ q_idx <= Len(download_queue)
    /\ ShouldProcess(download_queue[q_idx])
    /\ download_queue' = [download_queue EXCEPT ![q_idx].status = "downloading"]
    /\ \/ /\ pc' = "pq_item"
          /\ UNCHANGED q_idx
       \/ /\ pc' = "idle"
          /\ q_idx' = 0
    /\ UNCHANGED <<download_calls, outside_queue>>

\* process_queue: _download_file for the item, then "completed" or "failed"
ProcessQueueDownload ==
    /\ pc = "pq_item"
    /\ \E outcome \in AdapterOutcomes(SelectAdapter(download_queue[q_idx].link),
                                      download_queue[q_idx].link.url) :
        download_queue' =
            IF DownloadFileResult(outcome)
            THEN [download_queue EXCEPT ![q_idx].status = "completed", ![q_idx].progress = 100]
            ELSE [download_queue EXCEPT ![q_idx].status = "failed"]
    /\ download_calls' = [download_calls EXCEPT ![q_idx] = @ + 1]
    /\ q_idx' = q_idx + 1
    /\ pc' = "pq_loop"
    /\ UNCHANGED outside_queue

\* process_queue: the for loop is exhausted
ProcessQueueEnd ==
    /\ pc = "pq_loop"
    /\ q_idx > Len(download_queue)
    /\ pc' = "idle"
    /\ q_idx' = 0
    /\ UNCHANGED <<download_queue, download_calls, outside_queue>>

NextQueue ==
    \/ AddToQueue
    \/ ProcessQueue
    \/ ProcessQueueSkip
    \/ ProcessQueueStart
    \/ ProcessQueueDownload
    \/ ProcessQueueEnd

SpecQueue == Init /\ [][NextQueue]_vars

\* ------------------------------------------------------- the CLI, anime.py
MaxEpisodes == 2
MaxAnchors == 2

\* the variables the CLI operations leave alone
outside_cli == <<dl_vars, ep_vars, se_vars, pr_vars, gd_vars, q_vars, mf_vars, tr_vars>>

\* the a elements of the quality lists of an episode page; href <<>> is a
\* missing attribute, data_index "None" a missing data-index
Anchors == { [server |-> <<"MediaFire">>, href |-> UrlMediaFire, data_index |-> "None"],
             [server |-> <<"Google", " ", "Drive">>, href |-> <<"#">>, data_index |-> "1"],
             [server |-> <<"Unknown", " ", "Server">>, href |-> <<>>, data_index |-> "2"],
             [server |-> <<"Unknown", " ", "Server">>, href |-> <<>>, data_index |-> "None"] }

AnchorLists(n) == UNION { [1..k -> Anchors] : k \in 0..n }

\* `if href and href != "#"`
HasHref(a) == a.href # <<>> /\ a.href # <<"#">>

\* href if href.startswith("http") else f"{base_url}{href}"
AbsoluteUrl(href) ==
    IF href[1] \in {"https://", "http://"} THEN href ELSE <<BaseUrl>> \o href

\* f"javascript:index={info['dataIndex']}"
Placeholder(data_index) == <<"javascript:index=", data_index>>

\* the tabs one click opens: a pop-up next to the wanted tab, which opens last
MaxTabs == 2
UrlPopup == <<"https://", "ads.example", "/", "p">>
Opened(k) == [j \in 1..k |-> IF j = k THEN UrlGDrive ELSE UrlPopup]

\* the tabs each anchor of the list opens when it is clicked
Opens(n) == [1..n -> 0..MaxTabs]

\* new_page = pages[-1]; new_page.close(): the tabs that stay open
AllButLast(tabs) == SubSeq(tabs, 1, Len(tabs) - 1)

RECURSIVE ContainerLinks(_, _, _, _)
\* the links read from the download container, from anchor i on, with tabs
\* open beside the original page: an href is taken as it is, a data-index
\* anchor is clicked and yields the URL of the last page of the context, if
\* there is more than one page, and that page is closed; left holds, for
\* every clicked anchor, the number of tabs open after it
ContainerLinks(anchors, opens, i, tabs) ==
    IF i > Len(anchors) THEN [links |-> <<>>, left |-> <<>>]
    ELSE LET a == anchors[i]
             clicked == ~HasHref(a) /\ a.data_index # "None"
             pages == IF clicked THEN tabs \o Opened(opens[i]) ELSE tabs
             after == IF clicked /\ pages # <<>> THEN AllButLast(pages) ELSE pages
             here == IF HasHref(a)
                     THEN <<[host |-> a.server, url |-> AbsoluteUrl(a.href)]>>
                     ELSE IF clicked /\ pages # <<>>
                     THEN <<[host |-> a.server, url |-> pages[Len(pages)]]>>
                     ELSE <<>>
             rest == ContainerLinks(anchors, opens, i + 1, after)
         IN  [links |-> here \o rest.links,
              left |-> (IF clicked THEN <<Len(after)>> ELSE <<>>) \o rest.left]

RECURSIVE ScriptLinks(_, _)
\* the links built from the result of the page script, from anchor i on: an
\* href is taken as it is, a data-index anchor becomes a placeholder
ScriptLinks(anchors, i) ==
    IF i > Len(anchors) THEN <<>>
    ELSE LET a == anchors[i]
             host == a.server \o <<" (", "1080p", ")">>
             here == IF HasHref(a)
                     THEN <<[host |-> host, url |-> AbsoluteUrl(a.href)]>>
                     ELSE IF a.data_index # "None"
                     THEN <<[host |-> host, url |-> Placeholder(a.data_index)]>>
                     ELSE <<>>
         IN  here \o ScriptLinks(anchors, i + 1)

\* what the download page reached through the download button can yield
ServerLinks == { <<>>, <<[host |-> <<"MediaFire">>, url |-> UrlMediaFire]>> }

\* extract_download_links on witanime.cyou: the download container, then the
\* page script, then the download page; an exception gives []
ExtractDownloadLinks(anchors, container, opens, servers, raises) ==
    IF raises THEN <<>>
    ELSE IF container /\ ContainerLinks(anchors, opens, 1, <<>>).links # <<>>
    THEN ContainerLinks(anchors, opens, 1, <<>>).links
    ELSE IF ScriptLinks(anchors, 1) # <<>>
    THEN ScriptLinks(anchors, 1)
    ELSE servers

\* the if/elif chain of _download_episodes that sorts a link by its URL
CliCategory(link) ==
    LET url == Lower(link.url)
    IN  IF Contains(url, "mediafire.com") /\ ~Contains(url, "4shared") THEN "mediafire"
        ELSE IF Contains(url, "drive.google.com") \/ Contains(url, "docs.google.com")
        THEN "google_drive"
        ELSE IF Contains(url, "4shared.com") THEN "4shared"
        ELSE IF Contains(url, "mega.nz") THEN "mega"
        ELSE "other"

\* mediafire_links, google_drive_links, ... of _download_episodes
CliGroup(links, category) == SelectSeq(links, LAMBDA link : CliCategory(link) = category)

\* the answers to "Enter your choice (1-5, default is 1)"
Choices == {"1", "2", "3", "4", "5", ""}

\* prioritized_links of _download_episodes for the user's choice
CliPrioritize(links, choice) ==
    LET m == CliGroup(links, "mediafire")
        g == CliGroup(links, "google_drive")
        f == CliGroup(links, "4shared")
        e == CliGroup(links, "mega")
        o == CliGroup(links, "other")
    IN  CASE choice = "2" -> g \o m \o f \o e \o o
          [] choice = "3" -> f \o m \o g \o e \o o
          [] choice = "4" -> e \o m \o g \o f \o o
          [] OTHER        -> m \o g \o f \o e \o o

\* what download_anime_episode([link], ...) can do: True when the adapter of
\* the link succeeds, False, or an exception of anime_folder.mkdir
HandOutcomes(link) ==
    {"False", "raise"} \cup
        (IF "ok" \in AdapterOutcomes(SelectAdapter(link), link.url) THEN {"True"} ELSE {})

\* signal_handler: `'cli' in locals()`; cli is a name of the module, and the
\* locals of signal_handler are sig and frame
CliInLocals == FALSE

\* CLI.start: interactive mode, or one operation named by the arguments
InitCLI ==
    /\ IdleCalls
    /\ NewDownloadManager
    /\ NewCLI
    /\ cli_mode \in {"interactive", "args"}
    /\ page = [sel \in PageSelectors |-> 0]
    /\ channel_ok = TRUE
    /\ navigation_patterns = [site \in Sites |-> NoPattern]
    /\ database_file = [site \in Sites |-> NoPattern]
    /\ recorded = [site \in Sites |-> NoPattern]

\* the menu of interactive_mode is waiting, or start has not dispatched yet
Callable ==
    /\ pc = "idle"
    /\ process = "running"
    /\ cli_mode = "interactive" \/ cli_op = "none"

\* no episode is being processed
NoEpisodeWork ==
    /\ cli_links' = <<>>
    /\ cli_prioritized' = <<>>
    /\ cli_idx' = 0
    /\ cli_handed' = <<>>
    /\ cli_tabs' = <<>>
    /\ cli_success' = FALSE

\* the operation returns: through its finally clause if it has one
ReturnTo(has_finally) == pc' = IF has_finally THEN "cli_finally" ELSE "cli_return"

\* an exception leaves _download_episodes: the except clause of the operation
\* takes it, or it reaches the except clause of the main block and the
\* process ends
Propagate(has_finally) ==
    IF has_finally
    THEN pc' = "cli_finally" /\ process' = process
    ELSE pc' = "exited" /\ process' = "error"

\* CLI.search_anime(query, site, show_browser), up to the site search
SearchAnimeCall(op) ==
    /\ cli_op' = op
    /\ guarded' = TRUE
    /\ NoEpisodeWork
    /\ \/ \* cached episodes, some selected
          /\ \E k \in 1..MaxEpisodes : cli_todo' = k
          /\ pc' = "cli_dl_start"
          /\ last_failure' = "none"
          /\ UNCHANGED <<browser, process, double_start>>
       \/ \* cached episodes, none selected
          /\ cli_todo' = 0
          /\ pc' = "cli_finally"
          /\ last_failure' = "none"
          /\ UNCHANGED <<browser, process, double_start>>
       \/ \* start_browser succeeds
          /\ cli_todo' = 0
          /\ browser' = "open"
          /\ double_start' = (double_start \/ browser = "open")
          /\ pc' = "cli_search"
          /\ last_failure' = "none"
          /\ UNCHANGED process
       \/ \* start_browser raises: "Browser may have crashed", return
          /\ cli_todo' = 0
          /\ double_start' = (double_start \/ browser = "open")
          /\ pc' = "cli_finally"
          /\ last_failure' = "browser"
          /\ UNCHANGED <<browser, process>>
    /\ UNCHANGED <<cli_mode, interrupted, outside_cli>>

\* CLI.download_anime(title), up to _download_episodes
DownloadAnimeCall(op) ==
    \/ \* the title is not in the database: search_anime(title)
       SearchAnimeCall(op)
    \/ /\ cli_op' = op
       /\ guarded' = FALSE
       /\ NoEpisodeWork
       /\ last_failure' = "none"
       /\ \/ \* no data, no episodes, or no valid selection
             /\ cli_todo' = 0
             /\ pc' = "cli_return"
          \/ \* saved episodes, some selected
             /\ \E k \in 1..MaxEpisodes : cli_todo' = k
             /\ pc' = "cli_dl_start"
       /\ UNCHANGED <<browser, process, cli_mode, interrupted, double_start, outside_cli>>

\* interactive_mode choice 1 or a title, or start with --search
CliSearchAnime == Callable /\ SearchAnimeCall("search_anime")

\* interactive_mode choice 3, or start with --download
CliDownloadAnime == Callable /\ DownloadAnimeCall("download_anime")

\* interactive_mode choice 2, or start with --list
CliListSavedAnime ==
    /\ Callable
    /\ \/ DownloadAnimeCall("list_saved_anime")
       \/ \* nothing saved, or the selection is cancelled or invalid
          /\ cli_op' = "list_saved_anime"
          /\ guarded' = FALSE
          /\ NoEpisodeWork
          /\ last_failure' = "none"
          /\ cli_todo' = 0
          /\ pc' = "cli_return"
          /\ UNCHANGED <<browser, process, cli_mode, interrupted, double_start, outside_cli>>

\* start with --download and --episode: download_specific_anime
CliDownloadSpecificAnime ==
    /\ Callable
    /\ cli_mode = "args"
    /\ cli_op' = "download_specific_anime"
    /\ guarded' = TRUE
    /\ NoEpisodeWork
    /\ \/ \* the episode is in the cache
          /\ cli_todo' = 1
          /\ pc' = "cli_dl_start"
          /\ last_failure' = "none"
          /\ UNCHANGED browser
       \/ \* the anime is in the cache, the episode is not
          /\ cli_todo' = 0
          /\ pc' = "cli_finally"
          /\ last_failure' = "none"
          /\ UNCHANGED browser
       \/ \* start_browser succeeds
          /\ cli_todo' = 0
          /\ browser' = "open"
          /\ pc' = "cli_search"
          /\ last_failure' = "none"
       \/ \* start_browser raises into `except Exception`
          /\ cli_todo' = 0
          /\ pc' = "cli_finally"
          /\ last_failure' = "browser"
          /\ UNCHANGED browser
    /\ UNCHANGED <<process, cli_mode, interrupted, double_start, outside_cli>>

\* interactive_mode choice 5: sys.exit(0)
InteractiveExit ==
    /\ Callable
    /\ cli_mode = "interactive"
    /\ process' = "exit0"
    /\ pc' = "exited"
    /\ UNCHANGED <<cli_mode, browser, guarded, cli_op, cli_todo, cli_links, cli_prioritized,
                   cli_idx, cli_handed, cli_tabs, cli_success, last_failure, interrupted, double_start, outside_cli>>

\* mutant: an empty search result does not end the run
CliSiteSearchGoesOn ==
    /\ pc = "cli_search"
    /\ \E outcome \in {"results", "cancelled", "empty", "failed"} :
        CASE outcome = "results" ->
                /\ pc' = "cli_episodes"
                /\ UNCHANGED last_failure
          [] outcome = "cancelled" ->
                /\ cli_op # "download_specific_anime"
                /\ ReturnTo(guarded)
                /\ UNCHANGED last_failure
          [] OTHER ->
                /\ pc' = "cli_episodes"
                /\ last_failure' = "search"
    /\ UNCHANGED <<cli_mode, process, browser, guarded, cli_op, cli_todo, cli_links,
                   cli_prioritized, cli_idx, cli_handed, cli_tabs, cli_success, interrupted, double_start, outside_cli>>

\* results = self.site_interactor.search_anime(site, query) and the selection
CliSiteSearch ==
    /\ pc = "cli_search"
    /\ \E outcome \in {"results", "cancelled", "empty", "failed"} :
        CASE outcome = "results" ->
                /\ pc' = "cli_episodes"
                /\ UNCHANGED last_failure
          [] outcome = "cancelled" ->
                /\ cli_op # "download_specific_anime"
                /\ ReturnTo(guarded)
                /\ UNCHANGED last_failure
          [] OTHER ->
                \* no match, or an exception inside search_anime: []
                /\ ReturnTo(guarded)
                /\ last_failure' = "search"
    /\ UNCHANGED <<cli_mode, process, browser, guarded, cli_op, cli_todo, cli_links,
                   cli_prioritized, cli_idx, cli_handed, cli_tabs, cli_success, interrupted, double_start, outside_cli>>

\* episodes = self.site_interactor.extract_episodes(link) and the selection
CliExtractEpisodes ==
    /\ pc = "cli_episodes"
    /\ \E outcome \in {"episodes", "empty", "failed"}, k \in 0..MaxEpisodes :
        IF outcome = "episodes"
        THEN /\ k <= IF cli_op = "download_specific_anime" THEN 1 ELSE MaxEpisodes
             /\ cli_todo' = k
             /\ IF k > 0 THEN pc' = "cli_dl_start" ELSE ReturnTo(guarded)
             /\ UNCHANGED last_failure
        ELSE \* no episode found, or an exception inside extract_episodes: []
             /\ cli_todo' = 0
             /\ ReturnTo(guarded)
             /\ last_failure' = "episodes"
    /\ UNCHANGED <<cli_mode, process, browser, guarded, cli_op, cli_links,
                   cli_prioritized, cli_idx, cli_handed, cli_tabs, cli_success, interrupted, double_start, outside_cli>>

\* _download_episodes: the browser is started if there is none
DownloadEpisodesStart ==
    /\ pc = "cli_dl_start"
    /\ IF browser = "None"
       THEN \/ /\ browser' = "open"
               /\ pc' = "cli_links"
               /\ UNCHANGED <<process, last_failure>>
            \/ /\ Propagate(guarded)
               /\ last_failure' = "browser"
               /\ UNCHANGED browser
       ELSE /\ pc' = "cli_links"
            /\ UNCHANGED <<browser, process, last_failure>>
    /\ UNCHANGED <<cli_mode, guarded, cli_op, cli_todo, cli_links, cli_prioritized,
                   cli_idx, cli_handed, cli_tabs, cli_success, interrupted, double_start, outside_cli>>

\* _download_episodes: extract_download_links for the episode; without links
\* the loop continues with the next episode
CliExtractDownloadLinks ==
    /\ pc = "cli_links"
    /\ \E anchors \in AnchorLists(MaxAnchors), container \in BOOLEAN,
          opens \in Opens(MaxAnchors), servers \in ServerLinks, raises \in BOOLEAN :
        LET links == ExtractDownloadLinks(anchors, container, opens, servers, raises)
        IN  /\ cli_tabs' = IF container /\ ~raises
                           THEN ContainerLinks(anchors, opens, 1, <<>>).left
                           ELSE <<>>
            /\ IF links = <<>>
               THEN /\ last_failure' = "links"
                    /\ cli_todo' = cli_todo - 1
                    /\ IF cli_todo = 1 THEN ReturnTo(guarded) ELSE pc' = pc
                    /\ UNCHANGED cli_links
               ELSE /\ cli_links' = links
                    /\ pc' = "cli_choose"
                    /\ UNCHANGED <<last_failure, cli_todo>>
    /\ UNCHANGED <<cli_mode, process, browser, guarded, cli_op, cli_prioritized,
                   cli_idx, cli_handed, cli_success, interrupted, double_start, outside_cli>>

\* mutant: the browser is left open when the downloads begin
ChooseSourceKeepsBrowser ==
    /\ pc = "cli_choose"
    /\ \E choice \in Choices : cli_prioritized' = CliPrioritize(cli_links, choice)
    /\ browser' = browser
    /\ cli_idx' = 1
    /\ pc' = "cli_try"
    /\ UNCHANGED <<cli_mode, process, guarded, cli_op, cli_todo, cli_links, cli_handed, cli_tabs,
                   cli_success, last_failure, interrupted, double_start, outside_cli>>

\* _download_episodes: the links are sorted into prioritized_links for the
\* user's choice and the browser is closed
ChooseSource ==
    /\ pc = "cli_choose"
    /\ \E choice \in Choices : cli_prioritized' = CliPrioritize(cli_links, choice)
    /\ browser' = "None"
    /\ cli_idx' = 1
    /\ pc' = "cli_try"
    /\ UNCHANGED <<cli_mode, process, guarded, cli_op, cli_todo, cli_links, cli_handed, cli_tabs,
                   cli_success, last_failure, interrupted, double_start, outside_cli>>

\* mutant: an exception of download_anime_episode is not caught
HandLinkUncaught ==
    /\ pc = "cli_try"
    /\ ~cli_success
    /\ cli_idx <= Len(cli_prioritized)
    /\ cli_handed' = Append(cli_handed, cli_prioritized[cli_idx])
    /\ \E outcome \in HandOutcomes(cli_prioritized[cli_idx]) :
        CASE outcome = "True" ->
                /\ cli_success' = TRUE
                /\ UNCHANGED <<cli_idx, pc, process>>
          [] outcome = "raise" ->
                /\ Propagate(guarded)
                /\ UNCHANGED <<cli_idx, cli_success>>
          [] OTHER ->
                /\ cli_idx' = cli_idx + 1
                /\ UNCHANGED <<cli_success, pc, process>>
    /\ UNCHANGED <<cli_mode, browser, guarded, cli_op, cli_todo, cli_links, cli_tabs,
                   cli_prioritized, last_failure, interrupted, double_start, outside_cli>>

\* _download_episodes: one iteration of `for link in prioritized_links`:
\* download_anime_episode([link], ...), an exception counts as a failure
HandLink ==
    /\ pc = "cli_try"
    /\ ~cli_success
    /\ cli_idx <= Len(cli_prioritized)
    /\ cli_handed' = Append(cli_handed, cli_prioritized[cli_idx])
    /\ \E outcome \in HandOutcomes(cli_prioritized[cli_idx]) :
        IF outcome = "True"
        THEN /\ cli_success' = TRUE
             /\ UNCHANGED cli_idx
        ELSE /\ cli_idx' = cli_idx + 1
             /\ UNCHANGED cli_success
    /\ UNCHANGED <<pc, process>>
    /\ UNCHANGED <<cli_mode, browser, guarded, cli_op, cli_todo, cli_links, cli_tabs,
                   cli_prioritized, last_failure, interrupted, double_start, outside_cli>>

\* _download_episodes: the end of the loop body: the message when every link
\* failed, and the browser is started again for the next episode
EpisodeDone ==
    /\ pc = "cli_try"
    /\ cli_success \/ cli_idx > Len(cli_prioritized)
    /\ NoEpisodeWork
    /\ IF cli_todo > 1
       THEN \/ /\ browser' = "open"
               /\ cli_todo' = cli_todo - 1
               /\ pc' = "cli_links"
               /\ last_failure' = IF cli_success THEN last_failure ELSE "download"
               /\ UNCHANGED process
            \/ /\ Propagate(guarded)
               /\ last_failure' = "browser"
               /\ UNCHANGED <<browser, cli_todo>>
       ELSE /\ cli_todo' = 0
            /\ ReturnTo(guarded)
            /\ last_failure' = IF cli_success THEN last_failure ELSE "download"
            /\ UNCHANGED <<browser, process>>
    /\ UNCHANGED <<cli_mode, guarded, cli_op, interrupted, double_start, outside_cli>>

\* the finally clause of search_anime and download_specific_anime: close_browser
CliFinally ==
    /\ pc = "cli_finally"
    /\ browser' = "None"
    /\ pc' = "cli_return"
    /\ UNCHANGED <<cli_mode, process, guarded, cli_op, cli_todo, cli_links, cli_prioritized,
                   cli_idx, cli_handed, cli_tabs, cli_success, last_failure, interrupted, double_start, outside_cli>>

\* the operation has returned: the while loop of interactive_mode goes on, or
\* start returns and the process ends
CliReturn ==
    /\ pc = "cli_return"
    /\ IF cli_mode = "interactive"
       THEN /\ pc' = "idle"
            /\ cli_op' = "none"
            /\ UNCHANGED process
       ELSE /\ pc' = "exited"
            /\ process' = "exit0"
            /\ UNCHANGED cli_op
    /\ guarded' = FALSE
    /\ UNCHANGED <<cli_mode, browser, cli_todo, cli_links, cli_prioritized,
                   cli_idx, cli_handed, cli_tabs, cli_success, last_failure, interrupted, double_start, outside_cli>>

\* SIGINT: signal_handler, then sys.exit(0); SystemExit unwinds the stack and
\* runs the finally clause of the operation in progress, if it has one
SigInt ==
    /\ process = "running"
    /\ interrupted' = TRUE
    /\ browser' = IF CliInLocals \/ guarded THEN "None" ELSE browser
    /\ process' = "exit0"
    /\ pc' = "exited"
    /\ UNCHANGED <<cli_mode, guarded, cli_op, cli_todo, cli_links, cli_prioritized,
                   cli_idx, cli_handed, cli_tabs, cli_success, last_failure, double_start,
                   outside_cli>>

\* the steps the program takes by itself once an operation was chosen
CliProgram ==
    \/ CliSiteSearch
    \/ CliExtractEpisodes
    \/ DownloadEpisodesStart
    \/ CliExtractDownloadLinks
    \/ ChooseSource
    \/ HandLink
    \/ EpisodeDone
    \/ CliFinally
    \/ CliReturn

NextCLI ==
    \/ CliSearchAnime
    \/ CliDownloadAnime
    \/ CliListSavedAnime
    \/ CliDownloadSpecificAnime
    \/ InteractiveExit
    \/ CliSiteSearch
    \/ CliExtractEpisodes
    \/ DownloadEpisodesStart
    \/ CliExtractDownloadLinks
    \/ ChooseSource
    \/ HandLink
    \/ EpisodeDone
    \/ CliFinally
    \/ CliReturn
    \/ SigInt

SpecCLI == InitCLI /\ [][NextCLI]_vars

\* the calls of the program are blocking and bounded: an operation that was
\* started goes on until it returns
SpecCLIFair == SpecCLI /\ WF_vars(CliProgram)

\* ------------------------------------------------------------------ claims
\* the links of the _download_file invocations, in invocation order
AttemptedLinks == [i \in DOMAIN attempts |-> attempts[i].link]

\* C1: for a list of N links _download_file is invoked at most N times, and no
\* invocation follows one that returned True.
C1_AtMostNAttempts ==
    /\ Len(attempts) <= Len(download_links)
    /\ \A i \in DOMAIN attempts : attempts[i].outcome = "ok" => i = Len(attempts)

\* C2: with a non-empty list and a usable directory a failed attempt (False or
\* an exception) is followed by the next candidate; the call returns True iff
\* some attempt returned True, and False only after every candidate of the
\* prioritized list was attempted.
C2_FallbackAndResult ==
    (pc \in {"dl_loop", "dl_done"} /\ download_links # <<>> /\ dir_ok) =>
        /\ AttemptedLinks = SubSeq(prioritized_links, 1, Len(attempts))
        /\ pc = "dl_loop" => \A i \in DOMAIN attempts : attempts[i].outcome # "ok"
        /\ pc = "dl_done" =>
            /\ dl_result \in {"True", "False"}
            /\ dl_result = "True" <=> \E i \in DOMAIN attempts : attempts[i].outcome = "ok"
            /\ dl_result = "False" => Len(attempts) = Len(prioritized_links)

\* C2 witness: False is returned after an attempt that raised and one that failed
C2_Witness ==
    /\ pc = "dl_done" /\ dl_result = "False" /\ dir_ok
    /\ Len(attempts) = 2
    /\ attempts[1].outcome = "raise"
    /\ attempts[2].outcome = "fail"

\* priority group of a link: 1 MediaFire, 2 Google Drive, 3 the rest
Rank(link) == IF IsMediafireLink(link) THEN 1 ELSE IF IsGoogleLink(link) THEN 2 ELSE 3

\* first position of a link in a list that holds it
FirstIn(s, x) == CHOOSE i \in DOMAIN s : s[i] = x /\ \A j \in 1..(i - 1) : s[j] # x

\* a comes before b in the priority order of the input list
Precedes(a, b) ==
    \/ Rank(a) < Rank(b)
    \/ Rank(a) = Rank(b) /\ FirstIn(download_links, a) < FirstIn(download_links, b)

InputLinks == {download_links[i] : i \in DOMAIN download_links}

\* C3: candidates are attempted MediaFire group first, then Google Drive group,
\* then the rest, each group in input order: a link is attempted only after
\* every input link that precedes it in that order.
C3_PriorityOrder ==
    \A j \in DOMAIN attempts : \A a \in InputLinks :
        Precedes(a, attempts[j].link) => \E i \in 1..(j - 1) : attempts[i].link = a

\* C3 witness: 4shared listed before MediaFire, MediaFire attempted first
C3_Witness ==
    /\ download_links = << [host |-> <<"4shared">>, url |-> Url4shared],
                           [host |-> <<"MediaFire">>, url |-> UrlMediaFire] >>
    /\ Len(attempts) = 2
    /\ attempts[1].link.url = UrlMediaFire
    /\ attempts[2].link.url = Url4shared

\* the host family of the domain of a URL (the token after the scheme and "www.")
UrlFamily(url) ==
    LET dom == IF url[2] = "www." THEN url[3] ELSE url[2]
    IN  CASE dom = "mediafire.com"    -> "mediafire"
          [] dom = "drive.google.com" -> "google_drive"
          [] dom = "4shared.com"      -> "4shared"
          [] OTHER                    -> "generic"

\* the host family a label names, "none" when it names none
LabelFamily(host) ==
    CASE Contains(Lower(host), "mediafire") -> "mediafire"
      [] Contains(Lower(host), "google")    -> "google_drive"
      [] Contains(Lower(host), "4shared")   -> "4shared"
      [] OTHER                              -> "none"

\* C4: when the URL is on the domain of one host family and the label names
\* another family, the adapter invoked is the one of the URL's family.
C4_LabelNeverOverrides ==
    \A i \in DOMAIN attempts :
        LET l == attempts[i].link
        IN  (UrlFamily(l.url) # "generic" /\ LabelFamily(l.host) \notin {"none", UrlFamily(l.url)})
                => /\ attempts[i].adapter = UrlFamily(l.url)
                   /\ SelectAdapterBackup(l) = UrlFamily(l.url)

\* C5: a link whose URL is on a host's domain goes to that host's adapter
\* (direct stream: the generic adapter) for every label, empty and
\* "Unknown Server" included.
C5_UrlDecidesAdapter ==
    \A i \in DOMAIN attempts : attempts[i].adapter = UrlFamily(attempts[i].link.url)

\* every character of the number is a decimal digit
AllDigits(s) == s # <<>> /\ \A i \in DOMAIN s : s[i] \in DigitChars

\* C6: a list returned by an episode extractor has no two entries with the same
\* number and is in ascending order of int(number), the entries whose number
\* is not all digits after all numeric entries.
C6_UniqueSorted ==
    pc = "ep_done" =>
        \A i, j \in DOMAIN episodes : i < j =>
            /\ episodes[i].number # episodes[j].number
            /\ (AllDigits(episodes[i].number) /\ AllDigits(episodes[j].number))
                    => IntOf(episodes[i].number) <= IntOf(episodes[j].number)
            /\ ~AllDigits(episodes[i].number) => ~AllDigits(episodes[j].number)

\* C6 witness: the standard branch sees "Unknown", 2, 1, 2 and returns 1, 2, "Unknown"
C6_Witness ==
    /\ pc = "ep_done" /\ ep_variant = "standard"
    /\ ep_yield = << Unknown, <<"2">>, <<"1">>, <<"2">> >>
    /\ Len(episodes) = 3
    /\ episodes[1].number = <<"1">>
    /\ episodes[2].number = <<"2">>
    /\ episodes[3].number = Unknown

\* the last element, in discovery order, that yielded the number n
LastYielding(n) == CHOOSE i \in DOMAIN ep_yield :
                        ep_yield[i] = n /\ \A j \in DOMAIN ep_yield : j > i => ep_yield[j] # n

\* C7: when several elements yield the same number, the entry kept carries the
\* link of the last of them in discovery order (3,1,2,2 gives 1,2,3 and entry 2
\* holds the link of the second "2").
C7_LastWriteWins ==
    pc = "ep_done" =>
        \A k \in DOMAIN episodes :
            LET i == LastYielding(episodes[k].number)
            IN  episodes[k].link = LinkOf(ep_variant, ep_elements[i], i)

\* the title has a card linking /anime/<slug> and a card linking /anime-type/<slug>
HasBothForms(title) ==
    \E i, j \in DOMAIN search_cards :
        /\ search_cards[i].title = title /\ search_cards[j].title = title
        /\ Len(search_cards[i].href.path) >= 2 /\ Len(search_cards[j].href.path) >= 2
        /\ search_cards[i].href.path[1] = "anime"
        /\ search_cards[j].href.path[1] = "anime-type"
        /\ search_cards[i].href.path[2] = search_cards[j].href.path[2]

\* C8: two cards of one title (matching the query) linking /anime/<slug> and
\* /anime-type/<slug> give exactly one result for the title, with the /anime/
\* link, in either page order; and no two results share a title or a link.
C8_DuplicateCardsCollapse ==
    pc = "search_done" =>
        /\ \A t \in Titles : (MatchesQuery(t) /\ HasBothForms(t)) =>
                /\ Cardinality({k \in DOMAIN search_results : search_results[k].title = t}) = 1
                /\ \A k \in DOMAIN search_results : search_results[k].title = t =>
                        search_results[k].link.path[1] = "anime"
        /\ \A i, j \in DOMAIN search_results : i # j =>
                /\ search_results[i].title # search_results[j].title
                /\ search_results[i].link # search_results[j].link

\* C9: _find_element returns the first selector, in declared order, that matches
\* at least one element of the document; a later selector is never chosen when
\* an earlier one matches, whatever the counts.
C9_StrictFirstMatch ==
    (pc = "fe_done" /\ channel_ok) =>
        LET selectors == common_patterns(fe_purpose)
        IN  \A i \in DOMAIN selectors :
                (/\ MatchCount(page, selectors[i]) >= 1
                 /\ \A j \in 1..(i - 1) : MatchCount(page, selectors[j]) = 0)
                    => fe_result.selector = selectors[i]

\* every selector of the list matches zero elements of the document
NothingMatches(selectors) == \A i \in DOMAIN selectors : MatchCount(page, selectors[i]) = 0

\* C10: when every candidate selector matches zero elements _find_element
\* returns the none result (selector None, confidence 0, count 0) without
\* raising, and the call changes neither the pattern store nor any other state.
C10_NoneAndReadOnly ==
    /\ [](pc = "fe_done" /\ NothingMatches(common_patterns(fe_purpose))
            => fe_result = NoneResult)
    /\ [][pc' = "fe_done" => UNCHANGED <<dl_vars, ep_vars, se_vars, env_vars, db_vars>>]_vars

\* C10 witness: nothing matches for the purpose, the store holds a pattern, none is returned
C10_Witness ==
    /\ pc = "fe_done" /\ channel_ok
    /\ fe_purpose = "search_box"
    /\ NothingMatches(common_patterns("search_box"))
    /\ page[".anime-card"] > 0
    /\ \E site \in Sites : navigation_patterns[site] # NoPattern
    /\ fe_result = NoneResult

\* every selector stored for the site can be queried over the automation
\* channel and matches at least one element of the document
StoredSelectorsMatch(site) ==
    \A p \in DOMAIN navigation_patterns[site] :
        navigation_patterns[site][p].selector # "None" =>
            /\ channel_ok
            /\ MatchCount(page, navigation_patterns[site][p].selector) >= 1

\* C11: get_navigation_pattern(site) returns the pattern last handed to
\* add_navigation_pattern(site, .), with the same selector and confidence for
\* every purpose, and adapt_to_changes on a page where every stored selector
\* still matches returns the stored pattern and leaves the store unchanged.
C11_RoundTrip ==
    /\ [](pc = "get_done" =>
            \E site \in Sites :
                /\ DOMAIN pattern_result = DOMAIN recorded[site]
                /\ \A p \in DOMAIN pattern_result :
                    /\ pattern_result[p].selector = recorded[site][p].selector
                    /\ pattern_result[p].confidence = recorded[site][p].confidence)
    /\ [][\A site \in Sites :
            pc' = "adapt_done" /\ navigation_patterns[site] # NoPattern
                /\ StoredSelectorsMatch(site)
            => /\ pattern_result' = navigation_patterns[site]
               /\ UNCHANGED db_vars]_vars

\* C11 witness: a stored pattern with selectors was validated and returned
C11_Witness ==
    /\ pc = "adapt_done" /\ ad_path = "cheap"
    /\ \E site \in Sites :
        /\ pattern_result = navigation_patterns[site]
        /\ recorded[site] = navigation_patterns[site]
        /\ \E p \in DOMAIN pattern_result : pattern_result[p].selector # "None"

\* C12: for a site with a stored pattern the validation of adapt_to_changes
\* reports the pattern as working iff every stored selector matches at least
\* one element; one stored selector with zero matches, or a failing query,
\* makes it stale and the page is rescanned with _find_element.
C12_ValidationIffAllMatch ==
    [][\A site \in Sites :
        pc' = "adapt_done" /\ navigation_patterns[site] # NoPattern
        => /\ ad_path' = "cheap" <=> StoredSelectorsMatch(site)
           /\ ad_path' # "cheap" =>
                /\ ad_path' = "rescan"
                /\ new_pattern' # NoPattern
                /\ pattern_result' = new_pattern'
                /\ \A p \in DOMAIN new_pattern' :
                    new_pattern'[p] = FindElementResult(page, channel_ok, common_patterns(p))]_vars

\* C12 witness: one stored selector still matches, another matches nothing,
\* and the call rescanned
C12_Witness ==
    /\ pc = "adapt_done" /\ ad_path = "rescan" /\ channel_ok
    /\ \E site \in Sites : \E p, q \in DOMAIN navigation_patterns[site] :
        /\ navigation_patterns[site][p].selector # "None"
        /\ MatchCount(page, navigation_patterns[site][p].selector) >= 1
        /\ navigation_patterns[site][q].selector # "None"
        /\ MatchCount(page, navigation_patterns[site][q].selector) = 0

\* C13: for a site with a stored pattern update_site_pattern overwrites the
\* entry of a purpose only when the new result has a selector and confidence
\* above 0.5; every other entry stays exactly as stored.
C13_UpdateFrame ==
    [][\A site \in Sites :
        pc = "idle" /\ new_pattern' # NoPattern /\ navigation_patterns[site] # NoPattern
        => \A p \in Purposes :
            IF /\ p \in DOMAIN new_pattern'
               /\ new_pattern'[p].selector # "None"
               /\ new_pattern'[p].confidence > 50
            THEN /\ p \in DOMAIN navigation_patterns'[site]
                 /\ navigation_patterns'[site][p] = new_pattern'[p]
            ELSE IF p \in DOMAIN navigation_patterns[site]
            THEN /\ p \in DOMAIN navigation_patterns'[site]
                 /\ navigation_patterns'[site][p] = navigation_patterns[site][p]
            ELSE p \notin DOMAIN navigation_patterns'[site]]_vars

\* C13 witness: one entry was overwritten by a new result, another kept its
\* stored selector although the new result for it has none
C13_Witness ==
    /\ pc = "update_done"
    /\ \E site \in Sites : \E p, q \in DOMAIN new_pattern :
        /\ new_pattern[p].selector # "None"
        /\ navigation_patterns[site][p] = new_pattern[p]
        /\ new_pattern[q].selector = "None"
        /\ q \in DOMAIN navigation_patterns[site]
        /\ navigation_patterns[site][q].selector # "None"

\* the positions of the cookies whose name starts with download_warning
WarningCookies == { i \in DOMAIN gd_cookies : gd_cookies[i].name[1] = "download_warning" }

\* C14: when the initial response carries a download_warning cookie the
\* transfer request goes to the download URL with &confirm=<its value>
\* appended and only that request decides success; without such a cookie the
\* transfer uses the unmodified download URL.
C14_ConfirmTokenReplayed ==
    pc = "gd_done" =>
        /\ gd_result = "True" =>
            /\ Len(gd_requests) = 2
            /\ gd_requests[2].outcome = "ok"
        /\ Len(gd_requests) >= 1 /\ gd_requests[1].outcome = "ok" =>
            /\ Len(gd_requests) = 2
            /\ gd_requests[1].url = <<"https://drive.google.com/uc?id=", "x", "&export=download">>
            /\ IF WarningCookies # {}
               THEN \E i \in WarningCookies :
                        gd_requests[2].url = gd_requests[1].url \o <<"&confirm=", gd_cookies[i].value>>
               ELSE gd_requests[2].url = gd_requests[1].url

\* C14 witness: a warning cookie behind another cookie, the confirmed request succeeded
C14_Witness ==
    /\ pc = "gd_done" /\ gd_result = "True"
    /\ Len(gd_cookies) = 2
    /\ gd_cookies[1].name = <<"NID">>
    /\ gd_cookies[2].name = <<"download_warning", "_123">>
    /\ gd_requests[2].url = <<"https://drive.google.com/uc?id=", "x", "&export=download", "&confirm=", "TOKEN">>

\* the status changes an item of the queue may make
QueueMoves == { <<"queued", "downloading">>,
                <<"downloading", "completed">>,
                <<"downloading", "failed">> }

\* C15: an item of the queue only moves queued -> downloading -> completed or
\* failed; a completed or failed item is never changed and never downloaded
\* again by a later add_to_queue or process_queue.
C15_QueueItemLifecycle ==
    [][/\ Len(download_queue') >= Len(download_queue)
       /\ \A i \in DOMAIN download_queue' \ DOMAIN download_queue :
            download_queue'[i].status = "queued"
       /\ \A i \in DOMAIN download_queue :
            /\ download_queue'[i].link = download_queue[i].link
            /\ download_queue'[i].status # download_queue[i].status =>
                <<download_queue[i].status, download_queue'[i].status>> \in QueueMoves
            /\ download_calls'[i] # download_calls[i] =>
                /\ download_queue[i].status = "downloading"
                /\ download_calls[i] = 0
            /\ download_queue[i].status \in {"completed", "failed"} =>
                /\ download_queue'[i] = download_queue[i]
                /\ download_calls'[i] = download_calls[i]]_vars

\* C15 witness: a later process_queue call has passed a completed item and
\* stands at a failed one, each downloaded once
C15_Witness ==
    /\ pc = "pq_loop" /\ q_idx = 2
    /\ Len(download_queue) = 3
    /\ download_queue[1].status = "completed" /\ download_calls[1] = 1
    /\ download_queue[2].status = "failed" /\ download_calls[2] = 1
    /\ download_queue[3].status = "queued"

\* C16: in the MediaFire transfer with integrity check, when the file info
\* supplies a hash and the digest of the downloaded file differs from it, the
\* call returns True with a warning and the downloaded file stays on disk.
C16_HashMismatchStillSucceeds ==
    pc = "mf_done" /\ "hash" \in DOMAIN mf_file_data
        /\ mf_outcome.digest \in Digests /\ mf_outcome.digest # mf_file_data["hash"]
    => /\ mf_outcome.result = "True"
       /\ mf_outcome.message = "warning"
       /\ mf_outcome.disk = mf_outcome.digest

\* C16 witness: the file info names h1, the downloaded file hashes to h2
C16_Witness ==
    /\ pc = "mf_done"
    /\ "hash" \in DOMAIN mf_file_data /\ mf_file_data["hash"] = "h1"
    /\ mf_outcome = [disk |-> "h2", digest |-> "h2", message |-> "warning", result |-> "True"]

\* the url is a deferred script-index placeholder
IsPlaceholder(url) == url # <<>> /\ url[1] = "javascript:index="

\* C17: no link whose url is a javascript:index=N placeholder is ever handed
\* to download_anime_episode: every placeholder of extract_download_links is
\* replaced by a real URL or removed first.
C17_NoPlaceholderDispatched ==
    \A i \in DOMAIN cli_handed : ~IsPlaceholder(cli_handed[i].url)

\* C18: after a SIGINT received while a browser session is open the session
\* has been closed when the process exits.
C18_InterruptClosesBrowser ==
    interrupted => process = "exit0" /\ browser = "None"

\* the failures of extraction and download
ExtractionFailures == {"search", "episodes", "links", "download"}

C20_ChannelLossSurfaced ==
    pc = "fe_done" /\ ~channel_ok => fe_result # NoneResult

\* C21: when the selectors of extract_episodes match nothing, the stage has
\* consulted the pattern store (adapt_to_changes took one of its three paths)
\* by the time it returns its empty list.
C21_MissConsultsPatternStore ==
    pc = "ep_done" /\ ep_elements = <<>> => ad_path \in {"learn", "cheap", "rescan"}

\* the pipeline stage a position of the CLI belongs to: 1 search, 2 episode
\* list, 3 download links, 4 download, 0 outside the pipeline
Stage(p) ==
    CASE p = "cli_search" -> 1
      [] p = "cli_episodes" -> 2
      [] p \in {"cli_dl_start", "cli_links", "cli_choose"} -> 3
      [] p = "cli_try" -> 4
      [] OTHER -> 0

\* one step of the pipeline: it ends, stays in its stage, moves to the next
\* stage, begins (at the search, or at the links when the episodes are
\* cached), or goes from the download of one episode to the links of the next
StageStep ==
    \/ Stage(pc') = 0
    \/ Stage(pc') = Stage(pc)
    \/ Stage(pc) > 0 /\ Stage(pc') = Stage(pc) + 1
    \/ pc = "idle" /\ Stage(pc') \in {1, 3}
    \/ Stage(pc) = 4 /\ Stage(pc') = 3

\* C22: the stages run in the order search, episode list, download links,
\* download; after an empty search or episode list no later stage runs, and
\* an episode whose link extraction is empty gets no download attempt.
C22_StagesInOrder ==
    /\ [][StageStep]_vars
    /\ [](last_failure \in {"search", "episodes"} => Stage(pc) = 0 /\ cli_handed = <<>>)
    /\ [][pc = "cli_links" /\ cli_links' = <<>> => Stage(pc') \in {0, 3} /\ cli_handed' = <<>>]_vars
    /\ [](cli_handed # <<>> => cli_links # <<>> /\ (Stage(pc) = 4 \/ interrupted))

\* C22 witness: in search_anime the site search gave results, the episode
\* list came back empty and the operation is ending with nothing handed over
C22_Witness ==
    /\ cli_op = "search_anime"
    /\ pc = "cli_finally"
    /\ last_failure = "episodes"
    /\ browser = "open"
    /\ cli_handed = <<>>

\* C23: in _download_episodes the session is closed before the first download
\* attempt of an episode, no link is handed over while SiteInteractor holds a
\* session, and the links of the next episode are extracted only after the
\* session was started again.
C23_ClosedWhileDownloading ==
    /\ [](pc = "cli_try" => browser = "None")
    /\ [][cli_handed' # cli_handed /\ cli_handed' # <<>>
            => browser = "None" /\ browser' = "None"]_vars
    /\ [](pc = "cli_links" => browser = "open")
    /\ [][pc = "cli_try" /\ pc' = "cli_links" => browser = "None" /\ browser' = "open"]_vars

\* C23 witness: every download attempt of one episode failed, the session was
\* started again and the links of the last episode are about to be extracted
C23_Witness ==
    /\ pc = "cli_links"
    /\ cli_todo = 1
    /\ last_failure = "download"
    /\ browser = "open"

\* C24: the outcome of a transfer does not depend on the content-length
\* header: a response without an HTTP error whose body streams to completion
\* reports success when the header is absent and when it holds a positive
\* number, in both transfer loops.
C24_HeaderNeverDecides ==
    /\ pc = "tr_done"
    /\ ~IsHttpError(tr_call.status)
    /\ tr_call.stream = "ok"
    /\ ~tr_call.header.present \/ (tr_call.header.numeric /\ tr_call.header.value > 0)
    => tr_outcome.result = "True"

\* C25: after each clicked (data-index) anchor of extract_download_links every
\* tab the click opened has been closed: only the original page is open
\* before the next anchor is processed, however many tabs a click opens.
C25_SpawnedTabsClosed ==
    \A i \in DOMAIN cli_tabs : cli_tabs[i] = 0

\* C26: for the same candidate list and the default preference, the order in
\* which _download_episodes attempts the links equals the order
\* download_anime_episode gives that list.
C26_CallSitesAgree ==
    pc \in {"dl_loop", "dl_done"} /\ download_links # <<>>
        => \A choice \in {"", "1"} : CliPrioritize(download_links, choice) = prioritized_links

\* the confidence of the formula for n matches, in hundredths: 0.7, 0.9, 0.95
ExpectedConfidence(n) == IF n = 1 THEN 70 ELSE IF n = 2 THEN 90 ELSE 95

\* C27: the confidence _find_element returns lies in [0, 1]; it is 0 exactly
\* when no selector was found; for a match count n >= 1 it is
\* min(n/5 + 0.5, 0.95), so at least 0.7, non-decreasing in n, 0.95 from
\* n = 3 on, and above the 0.5 threshold of update_site_pattern.
C27_ConfidenceRange ==
    pc = "fe_done" =>
        /\ fe_result.confidence \in 0..100
        /\ fe_result.confidence = 0 <=> fe_result.selector = "None"
        /\ fe_result.selector # "None" =>
            /\ fe_result.count >= 1
            /\ fe_result.confidence = ExpectedConfidence(fe_result.count)
            /\ fe_result.confidence >= 70
            /\ fe_result.count >= 3 => fe_result.confidence = 95
            /\ Overwrites(fe_result)
        /\ \A m, n \in 1..MaxCount : m <= n => Confidence(m) <= Confidence(n)

\* C27 witness: the selector found matches three elements and the confidence
\* is capped at 0.95
C27_Witness ==
    /\ pc = "fe_done"
    /\ fe_result.selector # "None"
    /\ fe_result.count = 3
    /\ fe_result.confidence = 95

\* C28: when adapt_to_changes found a stored selector stale on the page and
\* rescanned, the pattern stored at its return holds no selector that fails
\* on that page, so that a repeated adapt_to_changes on the same page takes
\* the cheap path.
C28_AdaptationConverges ==
    pc = "adapt_done" /\ ad_path = "rescan" /\ channel_ok
        => \A site \in Sites :
            PatternWorks(get_navigation_pattern(navigation_patterns, site), page, channel_ok)

\* C29: across the CLI operations at most one browser session exists at a
\* time: start_browser is never called while SiteInteractor holds a session,
\* and every operation returns with the session closed.
C29_OneSessionAtATime ==
    /\ ~double_start
    /\ pc = "idle" => browser = "None"

\* C30: in the witanime branch of extract_episodes the sequential number
\* generated for an element whose URL yields no number is not in use when it
\* is generated: no earlier element of the page yielded that number.
C30_GeneratedNumberUnused ==
    pc = "ep_done" /\ ep_variant = "witanime"
        => \A i \in DOMAIN ep_elements :
            ep_elements[i].kind = "seq"
                => \A j \in 1..(i - 1) : ep_yield[j] # ep_yield[i]

====
